---- MODULE Spec2Model ----
(***************************************************************************)
(* A model of the timebox worklog client: the duration / start-time text   *)
(* parsers (src/api/types.rs, src/api/time.rs), the ADF <-> markdown        *)
(* document converter (src/api/types.rs) and the requests built from them  *)
(* (src/api/client.rs).                                                    *)
(*                                                                         *)
(* Text is a sequence of one-character strings.  An Option<T> is a record  *)
(* [some |-> BOOLEAN, val |-> T].                                          *)
(***************************************************************************)
EXTENDS Integers, Sequences, FiniteSets, TLC

VARIABLES
    call,   \* the operation under way: [fn |-> name, arg |-> its arguments]
    ret,    \* what the operation returned (meaningful once pc = "done")
    pc,     \* "call" before the operation has run, "done" after; "main" in the application
    app,        \* the fields of JiraTimeApp
    tasks,      \* the tasks spawned on the runtime that have not sent their result yet
    result_rx,  \* the AsyncResults sent on the channel and not yet received
    server,     \* the worklogs Jira holds
    clicks      \* how many times the user has clicked

vars == <<call, ret, pc, app, tasks, result_rx, server, clicks>>

appVars == <<app, tasks, result_rx, server, clicks>>

\* Where a single function is applied, no application is running.
AppNotStarted ==
    /\ app = [state |-> "NotStarted"]
    /\ tasks = {}
    /\ result_rx = <<>>
    /\ server = <<>>
    /\ clicks = 0

(***************************************************************************)
(* Bounds of the model.                                                    *)
(***************************************************************************)
MaxDurLen == 4
MaxHour == 25          \* hours 0..MaxHour are entered as start times
MaxMinute == 61        \* minutes 0..MaxMinute are entered as start times
MaxFormatSecs == 7300  \* durations of 0..MaxFormatSecs seconds are formatted
MaxOffsetMin == 840    \* local UTC offsets of -MaxOffsetMin..MaxOffsetMin minutes
MaxDocLines == 3       \* descriptions are built from up to MaxDocLines lines
MaxRawLen == 4         \* and from up to MaxRawLen delimiter characters
MaxValueLen == 6       \* a bold text node holds up to MaxValueLen characters
MaxItems == 3          \* an ordered list is typed with up to MaxItems lines
MaxHeadingLevel == 8   \* a heading node has a level of up to MaxHeadingLevel
MaxMarkedNodes == 2    \* a paragraph holds up to MaxMarkedNodes marked text nodes
MaxTagText == 4        \* the description field holds up to MaxTagText characters
MaxComponents == 2     \* a long duration is typed with up to MaxComponents components
MaxDateSpan == 10      \* dates lie within MaxDateSpan days of today and of day 0
MaxWeekEntries == 3    \* a week holds up to MaxWeekEntries entries
MaxWeekNav == 1        \* the user navigates up to MaxWeekNav weeks away from today's
MaxTasks == 3          \* up to MaxTasks spawned tasks are in flight
MaxWorklogs == 3       \* Jira assigns up to MaxWorklogs worklog ids
MaxDayTabs == 2        \* the first MaxDayTabs days of the week are clicked
MaxClicks == 3         \* the user clicks up to MaxClicks times

(***************************************************************************)
(* Characters and strings.                                                 *)
(***************************************************************************)
Digits == {"0", "1", "2", "3", "4", "5", "6", "7", "8", "9"}

DigitVal(c) ==
    CASE c = "0" -> 0 [] c = "1" -> 1 [] c = "2" -> 2 [] c = "3" -> 3
      [] c = "4" -> 4 [] c = "5" -> 5 [] c = "6" -> 6 [] c = "7" -> 7
      [] c = "8" -> 8 [] c = "9" -> 9

DigitChar(n) ==
    CASE n = 0 -> "0" [] n = 1 -> "1" [] n = 2 -> "2" [] n = 3 -> "3"
      [] n = 4 -> "4" [] n = 5 -> "5" [] n = 6 -> "6" [] n = 7 -> "7"
      [] n = 8 -> "8" [] n = 9 -> "9"

IsAsciiDigit(c) == c \in Digits

IsWhitespace(c) == c \in {" ", "\t", "\n", "\r"}

\* char::to_lowercase on the letters the model uses.
LowerChar(c) ==
    CASE c = "H" -> "h" [] c = "M" -> "m" [] c = "S" -> "s"
      [] c = "A" -> "a" [] c = "P" -> "p" [] c = "X" -> "x"
      [] OTHER -> c

ToLowercase(s) == [i \in 1..Len(s) |-> LowerChar(s[i])]

RECURSIVE TrimStart(_)
TrimStart(s) ==
    IF s # <<>> /\ IsWhitespace(Head(s)) THEN TrimStart(Tail(s)) ELSE s

RECURSIVE TrimEnd(_)
TrimEnd(s) ==
    IF s # <<>> /\ IsWhitespace(s[Len(s)])
    THEN TrimEnd(SubSeq(s, 1, Len(s) - 1))
    ELSE s

Trim(s) == TrimEnd(TrimStart(s))

Contains(s, c) == \E i \in 1..Len(s) : s[i] = c

\* All sequences over alphabet of length 0..n.
SeqsUpTo(alphabet, n) == UNION {[1..k -> alphabet] : k \in 0..n}

None == [some |-> FALSE, val |-> 0]
Some(v) == [some |-> TRUE, val |-> v]

RECURSIVE Pow2(_)
Pow2(n) == IF n = 0 THEN 1 ELSE 2 * Pow2(n - 1)

RECURSIVE Pow10(_)
Pow10(n) == IF n = 0 THEN 1 ELSE 10 * Pow10(n - 1)

RECURSIVE BitLen(_)
BitLen(n) == IF n = 0 THEN 0 ELSE 1 + BitLen(n \div 2)

RECURSIVE DecVal(_)
\* The value of a string of decimal digits.
DecVal(ds) ==
    IF ds = <<>> THEN 0
    ELSE 10 * DecVal(SubSeq(ds, 1, Len(ds) - 1)) + DigitVal(ds[Len(ds)])

(***************************************************************************)
(* f32: a finite non-negative single-precision value is m * 2^e with       *)
(* m = 0 or 2^23 <= m < 2^24; every operation rounds to nearest, ties to   *)
(* even, as IEEE 754 (and Rust's f32) does.                                *)
(***************************************************************************)
F32Zero == [m |-> 0, e |-> 0]

\* +infinity, held as the least value above every finite one, 2^128.
F32Inf == [m |-> Pow2(23), e |-> 105]

\* m (possibly 2^24 after a round-up) at exponent e, renormalised.
\* A value of 2^128 or more is infinity.
F32Carry(m, e) ==
    IF m = Pow2(24)
    THEN (IF e + 1 > 104 THEN F32Inf ELSE [m |-> Pow2(23), e |-> e + 1])
    ELSE (IF m # 0 /\ e > 104 THEN F32Inf ELSE [m |-> m, e |-> e])

RECURSIVE F32Frac(_, _, _, _)
\* The value (m + r/den) * 2^e with r < den, m < 2^24: shift in bits of the
\* fraction until the mantissa has 24 bits, then round on the remainder.
F32Frac(m, r, den, e) ==
    IF m = 0 /\ r = 0 THEN F32Zero
    ELSE IF m < Pow2(23)
    THEN F32Frac(2 * m + (IF 2 * r >= den THEN 1 ELSE 0), (2 * r) % den, den, e - 1)
    ELSE LET up == (2 * r > den) \/ (2 * r = den /\ m % 2 = 1)
         IN  F32Carry(m + (IF up THEN 1 ELSE 0), e)

\* The f32 nearest to ip + fn/den (ip, fn, den integers, fn < den).
F32FromDecimal(ip, fn, den) ==
    IF ip < Pow2(24) THEN F32Frac(ip, fn, den, 0)
    ELSE LET d    == BitLen(ip) - 24
             q    == ip \div Pow2(d)
             rem  == ip % Pow2(d)
             half == Pow2(d - 1)
             up   == (rem > half) \/ (rem = half /\ (fn > 0 \/ q % 2 = 1))
         IN  F32Carry(q + (IF up THEN 1 ELSE 0), d)

\* f * c for a small integer constant c (3600.0 and 60.0 are exact f32
\* values): the exact product, rounded to 24 bits.
F32MulInt(f, c) ==
    IF f.m = 0 THEN F32Zero
    ELSE LET a    == f.m \div 4096
             b    == f.m % 4096
             t    == b * c
             lo   == t % 4096
             hi   == a * c + t \div 4096       \* product = hi * 4096 + lo
             d    == BitLen(hi) - 12           \* bits to drop
             q    == hi * Pow2(12 - d) + lo \div Pow2(d)
             rem  == lo % Pow2(d)
             half == IF d = 0 THEN 1 ELSE Pow2(d - 1)
             up   == d > 0 /\ ((rem > half) \/ (rem = half /\ q % 2 = 1))
         IN  F32Carry(q + (IF up THEN 1 ELSE 0), f.e + d)

\* `f as i64`: truncation toward zero.
F32ToI64(f) ==
    IF f.e >= 0 THEN f.m * Pow2(f.e)
    ELSE IF -f.e >= 24 THEN 0
    ELSE f.m \div Pow2(-f.e)

(***************************************************************************)
(* Numbers beyond 2^31: a natural number as its limbs in base 10^9, most   *)
(* significant first; a 64-bit integer as the three limbs of its residue   *)
(* modulo 2^64 (two's complement).                                         *)
(***************************************************************************)
Limb == Pow10(9)

RECURSIVE StripZeros(_)
StripZeros(ds) == IF ds # <<>> /\ Head(ds) = "0" THEN StripZeros(Tail(ds)) ELSE ds

\* A long natural number is read four decimal digits at a time and turned
\* into its digits in base 2^16.
Myriad == Pow10(4)

Chunk == Pow2(16)

RECURSIVE BigOfDigits(_)
\* The base-10^4 digits of a string of decimal digits, most significant first.
BigOfDigits(ds) ==
    IF Len(ds) <= 4 THEN <<DecVal(ds)>>
    ELSE Append(BigOfDigits(SubSeq(ds, 1, Len(ds) - 4)),
                DecVal(SubSeq(ds, Len(ds) - 3, Len(ds))))

RECURSIVE BigDiv(_, _)
\* The base-10^4 digits of (carry * 10^(4 * Len(big)) + big) div 2^16.
BigDiv(big, carry) ==
    IF big = <<>> THEN <<>>
    ELSE <<(carry * Myriad + Head(big)) \div Chunk>>
            \o BigDiv(Tail(big), (carry * Myriad + Head(big)) % Chunk)

RECURSIVE BigMod(_, _)
\* (carry * 10^(4 * Len(big)) + big) mod 2^16.
BigMod(big, carry) ==
    IF big = <<>> THEN carry
    ELSE BigMod(Tail(big), (carry * Myriad + Head(big)) % Chunk)

BigIsZero(big) == \A i \in 1..Len(big) : big[i] = 0

RECURSIVE BigChunks(_)
\* The base-2^16 digits of the number, least significant first.
BigChunks(big) ==
    IF BigIsZero(big) THEN <<>>
    ELSE <<BigMod(big, 0)>> \o BigChunks(BigDiv(big, 0))

\* The f32 nearest to the number with base-2^16 digits cs (two or more, the
\* last non-zero), plus a fraction that is non-zero when sticky holds.  The
\* 24 bits come from the top three digits top, c2, c3; b is the bit length
\* of top, so b + 8 bits of c2 and c3 are dropped, together with the digits
\* below them.
F32FromChunks(cs, sticky) ==
    LET n     == Len(cs)
        top   == cs[n]
        c2    == cs[n - 1]
        c3    == IF n >= 3 THEN cs[n - 2] ELSE 0
        b     == BitLen(top)
        q     == IF b >= 8
                 THEN top * Pow2(24 - b) + c2 \div Pow2(b - 8)
                 ELSE top * Pow2(24 - b) + c2 * Pow2(8 - b) + c3 \div Pow2(b + 8)
        low   == IF b >= 8
                 THEN (c2 % Pow2(b - 8)) * Chunk + c3
                 ELSE c3 % Pow2(b + 8)
        half  == Pow2(b + 7)
        below == sticky \/ \E i \in 1..(n - 3) : cs[i] # 0
        up    == (low > half) \/ (low = half /\ (below \/ q % 2 = 1))
    IN  F32Carry(q + (IF up THEN 1 ELSE 0), b + 8 + 16 * (n - 3))

WZero == <<0, 0, 0>>

\* An integer of the model as a 64-bit integer.
W(n) == <<0, n \div Limb, n % Limb>>

\* The integer of the model a non-negative 64-bit integer below 2^31 is.
WToInt(w) == w[1] * Limb * Limb + w[2] * Limb + w[3]

WNorm(hi, mid, lo) ==
    <<hi + (mid + lo \div Limb) \div Limb, (mid + lo \div Limb) % Limb, lo % Limb>>

WAdd(a, b) == WNorm(a[1] + b[1], a[2] + b[2], a[3] + b[3])

\* a - b for a >= b.
WSub(a, b) == WNorm(a[1] - b[1] - 1, a[2] - b[2] + Limb - 1, a[3] - b[3] + Limb)

WLess(a, b) ==
    \/ a[1] < b[1]
    \/ a[1] = b[1] /\ a[2] < b[2]
    \/ a[1] = b[1] /\ a[2] = b[2] /\ a[3] < b[3]

I64Max == <<9, 223372036, 854775807>>       \* 2^63 - 1

TwoTo63 == <<9, 223372036, 854775808>>

TwoTo64 == <<18, 446744073, 709551616>>

RECURSIVE WShl(_, _)
\* w * 2^n
WShl(w, n) == IF n = 0 \/ w = WZero THEN w ELSE WShl(WAdd(w, w), n - 1)

\* i64 `+`: the wrapped sum, and whether the addition overflowed.  x >= 0.
I64Add(total, x) ==
    LET sum == WAdd(total, x)
    IN  [val      |-> IF WLess(sum, TwoTo64) THEN sum ELSE WSub(sum, TwoTo64),
         overflow |-> WLess(total, TwoTo63) /\ ~WLess(sum, TwoTo63)]

\* `f as i64` of a non-negative f32: truncation, saturating at i64::MAX.
F32AsI64(f) ==
    IF f.m # 0 /\ f.e >= 40 THEN I64Max
    ELSE IF f.e > 0 THEN WShl(W(f.m), f.e)
    ELSE W(F32ToI64(f))

(***************************************************************************)
(* str::parse::<f32>() and str::parse::<i64>() on a buffer of digits and   *)
(* dots.                                                                   *)
(***************************************************************************)
DotCount(s) == Cardinality({i \in 1..Len(s) : s[i] = "."})

DotPos(s) == CHOOSE i \in 1..Len(s) : s[i] = "."

\* The f32 nearest to ip.fp, both strings of digits.
F32OfDigits(ip, fp) ==
    IF Len(StripZeros(ip)) <= 9
    THEN F32FromDecimal(DecVal(StripZeros(ip)), DecVal(fp), Pow10(Len(fp)))
    ELSE F32FromChunks(BigChunks(BigOfDigits(StripZeros(ip))), StripZeros(fp) # <<>>)

\* Ok(f) for digits with at most one '.', and at least one digit; Err otherwise.
ParseF32(s) ==
    IF DotCount(s) > 1 \/ Len(s) - DotCount(s) = 0 THEN None
    ELSE IF DotCount(s) = 0 THEN Some(F32OfDigits(s, <<>>))
    ELSE Some(F32OfDigits(SubSeq(s, 1, DotPos(s) - 1), SubSeq(s, DotPos(s) + 1, Len(s))))

\* The last n of the digits ds (all of them when there are fewer).
LastDigits(ds, n) == SubSeq(ds, IF Len(ds) > n THEN Len(ds) - n + 1 ELSE 1, Len(ds))

\* The 64-bit integer a string of at most 27 digits is.
WOfDigits(ds) ==
    <<DecVal(SubSeq(ds, 1, Len(ds) - 18)),
      DecVal(SubSeq(LastDigits(ds, 18), 1, Len(LastDigits(ds, 18)) - 9)),
      DecVal(LastDigits(ds, 9))>>

\* Ok(n) for a non-empty string of digits of a value up to i64::MAX; Err otherwise.
ParseI64(s) ==
    IF s = <<>> \/ DotCount(s) > 0 THEN None
    ELSE IF Len(StripZeros(s)) > 19 THEN None
    ELSE IF WLess(I64Max, WOfDigits(StripZeros(s))) THEN None
    ELSE Some(WOfDigits(StripZeros(s)))

(***************************************************************************)
(* parse_duration                                                          *)
(***************************************************************************)
ScanInit ==
    [ok |-> TRUE, total_seconds |-> WZero, current_num |-> <<>>, has_unit |-> FALSE,
     overflow |-> FALSE]

\* `total_seconds += x; has_unit = true; current_num.clear()`
AddSeconds(st, x) ==
    [st EXCEPT !.total_seconds = I64Add(@, x).val,
               !.overflow = @ \/ I64Add(st.total_seconds, x).overflow,
               !.has_unit = TRUE,
               !.current_num = <<>>]

\* The unit letter c met with `amount` parsed from current_num.
AddUnit(st, c, amount) ==
    IF ~amount.some THEN [st EXCEPT !.current_num = <<>>]
    ELSE IF c = "h" THEN AddSeconds(st, F32AsI64(F32MulInt(amount.val, 3600)))
    ELSE IF c = "m" THEN AddSeconds(st, F32AsI64(F32MulInt(amount.val, 60)))
    ELSE AddSeconds(st, amount.val)

\* One iteration of `for c in input.chars()`.
ScanChar(st, c) ==
    IF IsAsciiDigit(c) \/ c = "."
    THEN [st EXCEPT !.current_num = Append(@, c)]
    ELSE IF c = "h" \/ c = "m"
    THEN AddUnit(st, c, ParseF32(st.current_num))
    ELSE IF c = "s"
    THEN AddUnit(st, c, ParseI64(st.current_num))
    ELSE IF IsWhitespace(c)
    THEN st
    ELSE [st EXCEPT !.ok = FALSE]      \* return None: invalid character

RECURSIVE ScanChars(_, _)
\* The character loop; it stops at the first invalid character.
ScanChars(st, s) ==
    IF s = <<>> \/ ~st.ok THEN st ELSE ScanChars(ScanChar(st, Head(s)), Tail(s))

\* The bare number num: hours with a decimal point or when 1..8, minutes otherwise.
BareNumber(current_num, num) ==
    IF Contains(current_num, ".")
    THEN F32AsI64(F32MulInt(num, 3600))
    ELSE IF ~WLess(F32AsI64(num), W(1)) /\ ~WLess(W(8), F32AsI64(num))
    THEN W(WToInt(F32AsI64(num)) * 3600)
    ELSE F32AsI64(F32MulInt(num, 60))

\* "Handle trailing number without unit": the total after it, or None.
TrailingNumberOf(st, num) ==
    IF st.current_num # <<>> /\ num.some
    THEN (IF st.has_unit THEN None ELSE Some(BareNumber(st.current_num, num.val)))
    ELSE Some(st.total_seconds)

TrailingNumber(st) == TrailingNumberOf(st, ParseF32(st.current_num))

\* `if total_seconds > 0 { Some(total_seconds) } else { None }`
PositiveTotal(total) ==
    IF total.some /\ total.val # WZero /\ WLess(total.val, TwoTo63)
    THEN Some(total.val)
    ELSE None

\* The state of the scan at the end of the loop, for the trimmed lower-case input.
ScanOf(input) == ScanChars(ScanInit, ToLowercase(Trim(input)))

\* parse_duration in 64-bit arithmetic: whether an addition overflowed, and
\* the Option<i64> returned when the additions wrap.
ParseDurationI64(input) ==
    IF ToLowercase(Trim(input)) = <<>> THEN [overflow |-> FALSE, result |-> None]
    ELSE IF ~ScanOf(input).ok THEN [overflow |-> ScanOf(input).overflow, result |-> None]
    ELSE [overflow |-> ScanOf(input).overflow,
          result   |-> PositiveTotal(TrailingNumber(ScanOf(input)))]

\* Option<i64> as an Option of the model's integers.
Narrow(result) == IF result.some THEN Some(WToInt(result.val)) ELSE None

\* parse_duration with the invalid-character return left out.
ParseDurationKeepsGoing(input) ==
    IF ToLowercase(Trim(input)) = <<>> THEN None
    ELSE Narrow(PositiveTotal(TrailingNumber(ScanOf(input))))

\* parse_duration on an input whose seconds stay below 2^31.
ParseDuration(input) == Narrow(ParseDurationI64(input).result)

(***************************************************************************)
(* Inputs of parse_duration.                                               *)
(***************************************************************************)
DurAlphabet == {"0", "1", "9", ".", "h", "m", "s", " ", "x"}

DurProbes ==
    { <<"1", "h", " ", "3", "0", "m">>,
      <<"9", "0">>,
      <<"1", ".", "5", "h">>,
      <<"a", "b", "c">>,
      <<"1", "h", " ", "3", "0">>,
      <<"3", "0", "M", " ", "1", "H">>,
      <<"1", "H", "2", "m", "3", "S">>,
      <<" ", "8", " ">>,
      <<"1", "1", "1", "8", "4", "8", "1">>,
      <<"1", "1", "1", "8", "4", "8", "3">>,
      <<"7", "4", "5", "6", "5", "h">>,
      <<"7", "4", "5", "6", "7", "h">> }

DurInputs == SeqsUpTo(DurAlphabet, MaxDurLen) \cup DurProbes

(***************************************************************************)
(* The duration parser applied to every input.                             *)
(***************************************************************************)
InitDuration ==
    /\ call \in [fn : {"parse_duration"}, arg : DurInputs]
    /\ ret = None
    /\ pc = "call"
    /\ AppNotStarted

CallParseDuration ==
    /\ pc = "call"
    /\ call.fn = "parse_duration"
    /\ ret' = ParseDuration(call.arg)
    /\ pc' = "done"
    /\ UNCHANGED <<call, appVars>>

NextDuration == CallParseDuration

SpecDuration == InitDuration /\ [][NextDuration]_vars

(***************************************************************************)
(* The duration parser applied to amounts at and beyond the i64 range.     *)
(* An overflowing `+=` panics when the build checks overflow (the dev      *)
(* profile) and wraps when it does not (the release profile).              *)
(***************************************************************************)
Repeated(c, n) == [i \in 1..n |-> c]

LongAmounts ==
    { <<"1">>,
      <<"9", "2", "2", "3", "3", "7", "2", "0", "3", "6", "8", "5", "4", "7", "7", "5", "8", "0", "7">>,
      <<"9", "2", "2", "3", "3", "7", "2", "0", "3", "6", "8", "5", "4", "7", "7", "5", "8", "0", "8">>,
      <<"1", "2", "3", "4", "5", "6", "7", "8", "9", "0", "1", "2", "3", ".", "2", "5">>,
      Repeated("9", 40) }

RECURSIVE Concat(_)
Concat(ss) == IF ss = <<>> THEN <<>> ELSE Head(ss) \o Concat(Tail(ss))

\* Up to MaxComponents components, each a long amount and a unit letter.
LongInputs ==
    {Concat(cs) : cs \in UNION {[1..k -> {a \o <<u>> : a \in LongAmounts, u \in {"h", "m", "s"}}] :
                                   k \in 1..MaxComponents}}

Panic == [panic |-> TRUE]

InitLong ==
    /\ call \in [fn : {"parse_duration"}, arg : LongInputs]
    /\ ret = None
    /\ pc = "call"
    /\ AppNotStarted

CallParseDurationI64 ==
    /\ pc = "call"
    /\ call.fn = "parse_duration"
    /\ \/ ret' = ParseDurationI64(call.arg).result
       \/ ParseDurationI64(call.arg).overflow /\ ret' = Panic
    /\ pc' = "done"
    /\ UNCHANGED <<call, appVars>>

NextLong == CallParseDurationI64

SpecLong == InitLong /\ [][NextLong]_vars

(***************************************************************************)
(* C13: parse_duration never aborts: for every string, including one with  *)
(* several components whose amounts are at or beyond the i64 range, the    *)
(* running total of seconds stays within the signed 64-bit range at every  *)
(* addition, and the call returns Some or None.                            *)
(***************************************************************************)
C13_NoOverflow ==
    (pc = "done" /\ call.fn = "parse_duration") =>
        /\ ~ParseDurationI64(call.arg).overflow
        /\ ret # Panic

(***************************************************************************)
(* What the duration claims speak of, read off the input text alone.       *)
(***************************************************************************)
IsUnit(c) == c \in {"h", "m", "s"}

UnitSeconds(c) == CASE c = "h" -> 3600 [] c = "m" -> 60 [] c = "s" -> 1

IsNumChar(c) == IsAsciiDigit(c) \/ c = "."

NotWhitespace(c) == ~IsWhitespace(c)

\* A number as str::parse::<f32> accepts it: digits with at most one dot.
IsNumber(t) == DotCount(t) <= 1 /\ Len(t) - DotCount(t) > 0

IsBareInteger(s) == s # <<>> /\ \A i \in 1..Len(s) : IsAsciiDigit(s[i])

\* ws* (digits unit ws*)* : only integer number+unit components.
RECURSIVE UnitForm(_, _)
UnitForm(s, num) ==
    IF s = <<>> THEN num = <<>>
    ELSE LET c == Head(s)
         IN  IF IsAsciiDigit(c) THEN UnitForm(Tail(s), Append(num, c))
             ELSE IF IsUnit(c) THEN num # <<>> /\ UnitForm(Tail(s), <<>>)
             ELSE IF IsWhitespace(c) THEN num = <<>> /\ UnitForm(Tail(s), <<>>)
             ELSE FALSE

\* a*3600 + b*60 + c of an input in unit form.
RECURSIVE UnitTotal(_, _)
UnitTotal(s, num) ==
    IF s = <<>> THEN 0
    ELSE LET c == Head(s)
         IN  IF IsAsciiDigit(c) THEN UnitTotal(Tail(s), Append(num, c))
             ELSE IF IsUnit(c) THEN DecVal(num) * UnitSeconds(c) + UnitTotal(Tail(s), <<>>)
             ELSE UnitTotal(Tail(s), <<>>)

\* The digits and dots of s[i..j], whitespace dropped, when s[i..j] holds
\* nothing else; <<>> otherwise.
NumRun(s, i, j) ==
    LET part == SubSeq(s, i, j)
    IN  IF \A k \in 1..Len(part) : IsNumChar(part[k]) \/ IsWhitespace(part[k])
        THEN SelectSeq(part, NotWhitespace)
        ELSE <<>>

\* The position after the last character before j that is not part of a number.
RunStart(s, j) ==
    LET stops == {i \in 1..(j - 1) : ~(IsNumChar(s[i]) \/ IsWhitespace(s[i]))}
    IN  IF stops = {} THEN 1
        ELSE (CHOOSE i \in stops : \A k \in stops : k <= i) + 1

\* A unit letter at j with a number before it: a number+unit component.
IsComponentAt(s, j) ==
    /\ IsUnit(s[j])
    /\ LET t == NumRun(s, RunStart(s, j), j - 1)
       IN  IF s[j] = "s" THEN IsBareInteger(t) ELSE IsNumber(t)

HasComponent(s) == \E j \in 1..Len(s) : IsComponentAt(s, j)

HasUnitLetter(s) == \E j \in 1..Len(s) : IsUnit(s[j])

\* The input ends with a number that no unit follows.
EndsWithNumber(s) ==
    s # <<>> /\ IsNumber(NumRun(s, RunStart(s, Len(s) + 1), Len(s)))

ValidDurChar(c) == IsNumChar(c) \/ IsUnit(LowerChar(c)) \/ IsWhitespace(c)

DurText == ToLowercase(Trim(call.arg))

DurDone == pc = "done" /\ call.fn = "parse_duration"

(***************************************************************************)
(* C1: for a bare decimal integer n (whitespace around it allowed),        *)
(* parse_duration returns Some(n*3600) when 1 <= n <= 8 and Some(n*60)     *)
(* when n >= 9.                                                            *)
(***************************************************************************)
C1_BareIntegerRule ==
    (DurDone /\ IsBareInteger(DurText)) =>
        LET n == DecVal(DurText)
        IN  /\ (1 <= n /\ n <= 8) => ret = Some(n * 3600)
            /\ n >= 9 => ret = Some(n * 60)

(***************************************************************************)
(* C2: for an input made only of integer number+unit components with a     *)
(* positive total, parse_duration returns Some(a*3600 + b*60 + c); and     *)
(* "1h 30m", "90" and "1.5h" all give Some(5400).                          *)
(***************************************************************************)
C2_UnitComponentsSum ==
    DurDone =>
        /\ (UnitForm(DurText, <<>>) /\ UnitTotal(DurText, <<>>) > 0)
              => ret = Some(UnitTotal(DurText, <<>>))
        /\ call.arg \in { <<"1", "h", " ", "3", "0", "m">>, <<"9", "0">>,
                          <<"1", ".", "5", "h">> }
              => ret = Some(5400)

(***************************************************************************)
(* C3: parse_duration returns None for the empty or whitespace-only string *)
(* and for every input holding, anywhere, a character other than a digit,  *)
(* '.', h/m/s (either case) or whitespace; and Some(n) only with n > 0.    *)
(***************************************************************************)
C3_RejectsInvalid ==
    DurDone =>
        /\ Trim(call.arg) = <<>> => ret = None
        /\ (\E i \in 1..Len(call.arg) : ~ValidDurChar(call.arg[i])) => ret = None
        /\ ret.some => ret.val > 0

\* An invalid character after a complete component, and a zero total.
C3_Witness ==
    /\ DurDone
    /\ call.arg \in { <<"1", "h", "x">>, <<"0", "h">> }
    /\ ret = None

(***************************************************************************)
(* C4: parse_duration returns None when a number+unit component was        *)
(* consumed and the input then ends with a number that has no unit; the    *)
(* trailing bare-number rule (the only way an input that ends with a       *)
(* number gets a value) is applied only when no unit occurred anywhere in  *)
(* the string.                                                             *)
(***************************************************************************)
C4_TrailingBareNumber ==
    DurDone =>
        /\ (HasComponent(DurText) /\ EndsWithNumber(DurText)) => ret = None
        /\ (EndsWithNumber(DurText) /\ ret.some) => ~HasUnitLetter(DurText)

(***************************************************************************)
(* Decimal formatting: format!("{}", n) and format!("{:02}", n), n >= 0.   *)
(***************************************************************************)
RECURSIVE ToDec(_)
ToDec(n) == IF n < 10 THEN <<DigitChar(n)>> ELSE Append(ToDec(n \div 10), DigitChar(n % 10))

RECURSIVE PadLeft(_, _)
\* Zero-padding to a minimum width.
PadLeft(s, width) == IF Len(s) >= width THEN s ELSE PadLeft(<<"0">> \o s, width)

Pad2(n) == PadLeft(ToDec(n), 2)

Abs(n) == IF n < 0 THEN -n ELSE n

\* Rust's integer division truncates toward zero.
TruncDivFloors(a, b) == a \div b

TruncDiv(a, b) == IF a >= 0 THEN a \div b ELSE -((-a) \div b)

StartsWith(s, p) == Len(s) >= Len(p) /\ SubSeq(s, 1, Len(p)) = p

EndsWith(s, p) == Len(s) >= Len(p) /\ SubSeq(s, Len(s) - Len(p) + 1, Len(s)) = p

RECURSIVE Split(_, _)
\* str::split(c): the pieces between the occurrences of c (at least one piece).
Split(s, c) ==
    IF ~Contains(s, c) THEN <<s>>
    ELSE LET i == CHOOSE k \in 1..Len(s) : s[k] = c /\ \A j \in 1..(k - 1) : s[j] # c
         IN  <<SubSeq(s, 1, i - 1)>> \o Split(SubSeq(s, i + 1, Len(s)), c)

\* str::parse::<u32>(): digits after an optional '+'.  Every number of the
\* model's inputs is far below u32::MAX, where parse turns to Err.
ParseU32(s) ==
    LET ds == IF s # <<>> /\ Head(s) = "+" THEN Tail(s) ELSE s
    IN  IF IsBareInteger(ds) THEN Some(DecVal(ds)) ELSE None

(***************************************************************************)
(* parse_start_time                                                        *)
(***************************************************************************)
NoneText == [some |-> FALSE, val |-> <<>>]

\* The am/pm suffix split off: (time_part, is_pm).
SplitSuffix(input) ==
    IF EndsWith(input, <<"p", "m">>)
    THEN [time_part |-> SubSeq(input, 1, Len(input) - 2), is_pm |-> TRUE]
    ELSE IF EndsWith(input, <<"a", "m">>)
    THEN [time_part |-> SubSeq(input, 1, Len(input) - 2), is_pm |-> FALSE]
    ELSE IF EndsWith(input, <<"p">>)
    THEN [time_part |-> SubSeq(input, 1, Len(input) - 1), is_pm |-> TRUE]
    ELSE IF EndsWith(input, <<"a">>)
    THEN [time_part |-> SubSeq(input, 1, Len(input) - 1), is_pm |-> FALSE]
    ELSE [time_part |-> input, is_pm |-> FALSE]

\* Some(<<hour, minute>>), or None where `?` returns.
HourMinute(time_part) ==
    IF Contains(time_part, ":")
    THEN LET parts == Split(time_part, ":")
             h     == ParseU32(parts[1])
             m     == ParseU32(parts[2])
         IN  IF h.some THEN Some(<<h.val, IF m.some THEN m.val ELSE 0>>) ELSE None
    ELSE LET h == ParseU32(time_part)
         IN  IF h.some THEN Some(<<h.val, 0>>) ELSE None

\* The 12-hour to 24-hour rule with `hour < 12` turned into `hour <= 12`.
Hour24AddsToNoon(hour, is_pm, input) ==
    IF is_pm /\ hour <= 12 THEN hour + 12
    ELSE IF ~is_pm /\ hour = 12 /\ Contains(input, "a") THEN 0
    ELSE hour

Hour24(hour, is_pm, input) ==
    IF is_pm /\ hour < 12 THEN hour + 12
    ELSE IF ~is_pm /\ hour = 12 /\ Contains(input, "a") THEN 0
    ELSE hour

ParseStartTime(raw) ==
    LET input == ToLowercase(Trim(raw))
    IN  IF input = <<>> THEN NoneText
        ELSE LET sfx       == SplitSuffix(input)
                 time_part == Trim(sfx.time_part)
                 hm        == HourMinute(time_part)
             IN  IF ~hm.some THEN NoneText
                 ELSE LET hour_24 == Hour24(hm.val[1], sfx.is_pm, input)
                          minute  == hm.val[2]
                      IN  IF hour_24 > 23 \/ minute > 59 THEN NoneText
                          ELSE Some(Pad2(hour_24) \o <<":">> \o Pad2(minute)
                                    \o <<":", "0", "0">>)

(***************************************************************************)
(* build_jira_timestamp.  The local UTC offset, which the code reads from  *)
(* the clock (Local::now().offset().local_minus_utc()), is an input.       *)
(***************************************************************************)
\* NaiveDate::format("%Y-%m-%d")
FormatDate(date) ==
    PadLeft(ToDec(date.y), 4) \o <<"-">> \o Pad2(date.m) \o <<"-">> \o Pad2(date.d)

DefaultStartTime == <<"0", "9", ":", "0", "0", ":", "0", "0">>

OffsetStr(local_offset) ==
    LET offset_hours == TruncDiv(local_offset, 3600)
        offset_mins  == (Abs(local_offset) % 3600) \div 60
        sign         == IF local_offset >= 0 THEN "+" ELSE "-"
    IN  <<sign>> \o Pad2(Abs(offset_hours)) \o Pad2(offset_mins)

\* start_time is an Option<&str>.
BuildJiraTimestamp(date, start_time, local_offset) ==
    LET parsed   == IF start_time.some THEN ParseStartTime(start_time.val) ELSE NoneText
        time_str == IF parsed.some THEN parsed.val ELSE DefaultStartTime
    IN  FormatDate(date) \o <<"T">> \o time_str \o <<".", "0", "0", "0">>
            \o OffsetStr(local_offset)

(***************************************************************************)
(* Inputs of parse_start_time: H or H:MM, then an optional am/pm suffix.   *)
(***************************************************************************)
Suffixes ==
    { <<>>, <<"a", "m">>, <<"p", "m">>, <<"a">>, <<"p">>, <<"P", "M">>, <<"A", "m">> }

\* minute -1: the form H, without ":MM".
TimeForms ==
    [hour : 0..MaxHour, minute : -1..MaxMinute, suffix : Suffixes, pad : {<<>>, <<" ">>}]

\* The text of a form; the padding goes around the text and before the suffix.
TimeText(f) ==
    f.pad \o ToDec(f.hour)
          \o (IF f.minute < 0 THEN <<>> ELSE <<":">> \o Pad2(f.minute))
          \o f.pad \o f.suffix \o f.pad

StartTimeArgs ==
    { [some |-> FALSE, val |-> <<>>],
      Some(<<>>),
      Some(<<"a", "b", "c">>),
      Some(<<"2", "5", ":", "0", "0">>),
      Some(<<"9", "a", "m">>),
      Some(<<"2", ":", "3", "0", "p", "m">>),
      Some(<<"1", "2", "a", "m">>) }

Dates == { [y |-> 2025, m |-> 12, d |-> 2], [y |-> 2024, m |-> 2, d |-> 29] }

LocalOffsets == { 60 * k : k \in (-MaxOffsetMin)..MaxOffsetMin }

InitStartTime ==
    /\ \/ \E f \in TimeForms :
             call = [fn |-> "parse_start_time", arg |-> TimeText(f), form |-> f]
       \/ call \in [fn : {"build_jira_timestamp"}, date : Dates,
                    start_time : StartTimeArgs, local_offset : LocalOffsets]
    /\ ret = NoneText
    /\ pc = "call"
    /\ AppNotStarted

CallParseStartTime ==
    /\ pc = "call"
    /\ call.fn = "parse_start_time"
    /\ ret' = ParseStartTime(call.arg)
    /\ pc' = "done"
    /\ UNCHANGED <<call, appVars>>

CallBuildJiraTimestamp ==
    /\ pc = "call"
    /\ call.fn = "build_jira_timestamp"
    /\ ret' = Some(BuildJiraTimestamp(call.date, call.start_time, call.local_offset))
    /\ pc' = "done"
    /\ UNCHANGED <<call, appVars>>

NextStartTime == CallParseStartTime \/ CallBuildJiraTimestamp

SpecStartTime == InitStartTime /\ [][NextStartTime]_vars

(***************************************************************************)
(* C5: for an input H or H:MM with an optional suffix am/pm/a/p (any case, *)
(* whitespace around ignored), parse_start_time maps the hour: pm with     *)
(* H < 12 gives H+12, pm with H >= 12 keeps H, am with H = 12 gives 0,     *)
(* otherwise H; it returns None when that hour is > 23 or the minute > 59, *)
(* and otherwise exactly the zero-padded "HH:MM:00".                       *)
(***************************************************************************)
IsPmSuffix(sfx) == ToLowercase(sfx) \in { <<"p", "m">>, <<"p">> }

IsAmSuffix(sfx) == ToLowercase(sfx) \in { <<"a", "m">>, <<"a">> }

ClaimedHour(f) ==
    IF IsPmSuffix(f.suffix) THEN (IF f.hour < 12 THEN f.hour + 12 ELSE f.hour)
    ELSE IF IsAmSuffix(f.suffix) /\ f.hour = 12 THEN 0
    ELSE f.hour

ClaimedMinute(f) == IF f.minute < 0 THEN 0 ELSE f.minute

TwoDigits(n) == <<DigitChar(n \div 10), DigitChar(n % 10)>>

C5_StartTimeMapping ==
    (pc = "done" /\ call.fn = "parse_start_time") =>
        LET h == ClaimedHour(call.form)
            m == ClaimedMinute(call.form)
        IN  IF h > 23 \/ m > 59 THEN ~ret.some
            ELSE ret = Some(TwoDigits(h) \o <<":">> \o TwoDigits(m) \o <<":", "0", "0">>)

\* "2:30pm" is 14:30.
C5_Witness ==
    /\ pc = "done"
    /\ call.fn = "parse_start_time"
    /\ call.arg = <<"2", ":", "3", "0", "p", "m">>
    /\ ret = Some(<<"1", "4", ":", "3", "0", ":", "0", "0">>)

(***************************************************************************)
(* C6: for every date, every start_time argument (absent, parsable or not) *)
(* and every local offset o of whole minutes with |o| <= 14h,              *)
(* build_jira_timestamp returns DATE "T" TIME ".000" OFF: TIME is          *)
(* parse_start_time(start_time) when that succeeds and "09:00:00"          *)
(* otherwise; OFF is the sign of o ('+' for o >= 0), two digits            *)
(* |o| div 3600 and two digits (|o| mod 3600) div 60, with no colon.       *)
(***************************************************************************)
ClaimedOffset(o) ==
    <<IF o >= 0 THEN "+" ELSE "-">> \o TwoDigits(Abs(o) \div 3600)
        \o TwoDigits((Abs(o) % 3600) \div 60)

ClaimedTime(start_time) ==
    IF start_time.some /\ ParseStartTime(start_time.val).some
    THEN ParseStartTime(start_time.val).val
    ELSE <<"0", "9", ":", "0", "0", ":", "0", "0">>

C6_TimestampFormat ==
    (pc = "done" /\ call.fn = "build_jira_timestamp") =>
        ret.val = FormatDate(call.date) \o <<"T">> \o ClaimedTime(call.start_time)
                    \o <<".", "0", "0", "0">> \o ClaimedOffset(call.local_offset)

\* An unparsable start time west of Greenwich by half an hour.
C6_Witness ==
    /\ pc = "done"
    /\ call.fn = "build_jira_timestamp"
    /\ call.local_offset = -1800
    /\ call.start_time = Some(<<"2", "5", ":", "0", "0">>)
    /\ ret.val = <<"2", "0", "2", "5", "-", "1", "2", "-", "0", "2", "T",
                   "0", "9", ":", "0", "0", ":", "0", "0", ".", "0", "0", "0",
                   "-", "0", "0", "3", "0">>

(***************************************************************************)
(* format_duration and format_duration_with_format                         *)
(***************************************************************************)
\* format_duration with `mins > 0` turned into `mins >= 0`.
FormatDurationPrintsZeroMinutes(seconds) ==
    LET hours == seconds \div 3600
        mins  == (seconds % 3600) \div 60
    IN  IF hours > 0 /\ mins >= 0
        THEN ToDec(hours) \o <<"h", " ">> \o ToDec(mins) \o <<"m">>
        ELSE IF hours > 0 THEN ToDec(hours) \o <<"h">>
        ELSE IF mins > 0 THEN ToDec(mins) \o <<"m">>
        ELSE <<"0", "m">>

\* seconds >= 0, where Rust's / and % agree with \div and %.
FormatDuration(seconds) ==
    LET hours == seconds \div 3600
        mins  == (seconds % 3600) \div 60
    IN  IF hours > 0 /\ mins > 0
        THEN ToDec(hours) \o <<"h", " ">> \o ToDec(mins) \o <<"m">>
        ELSE IF hours > 0 THEN ToDec(hours) \o <<"h">>
        ELSE IF mins > 0 THEN ToDec(mins) \o <<"m">>
        ELSE <<"0", "m">>

\* `a as f32 / 3600.0` for an integer a >= 0: the quotient, rounded once.
F32DivInt(f, c) ==
    LET v == F32ToI64(f)      \* an integer-valued f32
    IN  F32FromDecimal(v \div c, v % c, c)

\* hours == hours.floor()
F32IsInteger(f) == f.e >= 0 \/ (-f.e < 24 /\ f.m % Pow2(-f.e) = 0)

\* format!("{:.2}", f) counted in hundredths: the exact value, to the nearest
\* hundredth, ties to even.  f is below 2^23 and no integer.
F32Hundredths(f) ==
    LET k == -f.e
        n == f.m * 100
    IN  IF k > 31 THEN 0
        ELSE IF k = 31 THEN (IF n > Pow2(30) THEN 1 ELSE 0)
        ELSE LET q    == n \div Pow2(k)
                 rem  == n % Pow2(k)
                 half == Pow2(k - 1)
                 up   == (rem > half) \/ (rem = half /\ q % 2 = 1)
             IN  q + (IF up THEN 1 ELSE 0)

RECURSIVE TrimEndMatches(_, _)
TrimEndMatches(s, c) ==
    IF s # <<>> /\ s[Len(s)] = c THEN TrimEndMatches(SubSeq(s, 1, Len(s) - 1), c) ELSE s

FormatDurationWithFormat(seconds, time_format) ==
    IF time_format = "HoursMinutes" THEN FormatDuration(seconds)
    ELSE LET hours == F32DivInt(F32FromDecimal(seconds, 0, 1), 3600)
         IN  IF hours.m = 0 THEN <<"0", "h">>
             ELSE IF F32IsInteger(hours) THEN ToDec(F32ToI64(hours)) \o <<"h">>
             ELSE LET n       == F32Hundredths(hours)
                      str     == ToDec(n \div 100) \o <<".">> \o TwoDigits(n % 100)
                      trimmed == TrimEndMatches(TrimEndMatches(str, "0"), ".")
                  IN  trimmed \o <<"h">>

FormatProbes == {35999, 36000, 86400, 359940, 360000}

FormatInputs == (0..MaxFormatSecs) \cup FormatProbes

InitFormat ==
    /\ call \in [fn : {"format_duration_with_format"}, seconds : FormatInputs,
                 time_format : {"HoursMinutes", "Decimal"}]
    /\ ret = NoneText
    /\ pc = "call"
    /\ AppNotStarted

CallFormatDuration ==
    /\ pc = "call"
    /\ call.fn = "format_duration_with_format"
    /\ ret' = Some(FormatDurationWithFormat(call.seconds, call.time_format))
    /\ pc' = "done"
    /\ UNCHANGED <<call, appVars>>

\* The edit dialog saved as it was opened: save_dialog parses the text that
\* open_edit_dialog formatted.
CallParseFormatted ==
    /\ pc = "done"
    /\ call.fn = "format_duration_with_format"
    /\ ret' = ParseDuration(ret.val)
    /\ pc' = "parsed"
    /\ UNCHANGED <<call, appVars>>

NextFormat == CallFormatDuration \/ CallParseFormatted

SpecFormat == InitFormat /\ [][NextFormat]_vars

(***************************************************************************)
(* C7: for s >= 0, with h = s div 3600 and m = (s mod 3600) div 60,        *)
(* format_duration_with_format(s, HoursMinutes) is "{h}h {m}m" when h > 0  *)
(* and m > 0, "{h}h" when h > 0 and m = 0, "{m}m" when h = 0 and m > 0,    *)
(* and "0m" when both are 0: a zero component is printed only in "0m".     *)
(***************************************************************************)
C7_HoursMinutesFormat ==
    (pc = "done" /\ call.fn = "format_duration_with_format"
                 /\ call.time_format = "HoursMinutes") =>
        LET h == call.seconds \div 3600
            m == (call.seconds % 3600) \div 60
        IN  ret.val = CASE h > 0 /\ m > 0 -> ToDec(h) \o <<"h", " ">> \o ToDec(m) \o <<"m">>
                        [] h > 0 /\ m = 0 -> ToDec(h) \o <<"h">>
                        [] h = 0 /\ m > 0 -> ToDec(m) \o <<"m">>
                        [] h = 0 /\ m = 0 -> <<"0", "m">>

\* A whole number of hours is printed without its zero minutes.
C7_Witness ==
    /\ pc = "done"
    /\ call.fn = "format_duration_with_format"
    /\ call.time_format = "HoursMinutes"
    /\ call.seconds = 7200
    /\ ret.val = <<"2", "h">>

(***************************************************************************)
(* Markdown -> ADF (markdown_to_adf).  A JSON object is a record with the  *)
(* object's keys; a text node's "marks" is the sequence of its marks'      *)
(* types, and the key is absent when the node has no marks.                *)
(***************************************************************************)
NL == "\n"

\* The character U+0060 (a string of the module cannot hold it).
Backtick == "BACKTICK"

StripCr(l) == IF l # <<>> /\ l[Len(l)] = "\r" THEN SubSeq(l, 1, Len(l) - 1) ELSE l

\* The lines of the pieces between line feeds: no last line after a final
\* "\n", and a "\r" dropped only where a "\n" followed it.
LinesOf(pieces) ==
    IF pieces[Len(pieces)] = <<>>
    THEN [i \in 1..(Len(pieces) - 1) |-> StripCr(pieces[i])]
    ELSE [i \in 1..Len(pieces) |-> IF i < Len(pieces) THEN StripCr(pieces[i]) ELSE pieces[i]]

\* str::lines()
Lines(s) == LinesOf(Split(s, NL))

RECURSIVE Join(_, _)
\* [String]::join(sep)
Join(ls, sep) ==
    IF ls = <<>> THEN <<>>
    ELSE IF Len(ls) = 1 THEN ls[1]
    ELSE ls[1] \o sep \o Join(Tail(ls), sep)

RECURSIVE FindFrom(_, _, _)
\* The first position at or after i where pat occurs in text, 0 when there is none.
FindFrom(text, pat, i) ==
    IF i + Len(pat) - 1 > Len(text) THEN 0
    ELSE IF SubSeq(text, i, i + Len(pat) - 1) = pat THEN i
    ELSE FindFrom(text, pat, i + 1)

\* str::find(pat): the first position of pat in text, 0 when there is none.
Find(text, pat) == FindFrom(text, pat, 1)

NoMatch == [some |-> FALSE]

\* find_pattern once both delimiters have been looked for; end_pos counts
\* from 1, so the code's `end_pos == 0` is end_pos = 1 here.
FindPatternEnd(text, start, end, start_pos, end_pos) ==
    LET rest == SubSeq(text, start_pos + Len(start), Len(text))
    IN  IF end_pos = 0 THEN NoMatch
        ELSE IF end_pos = 1 THEN NoMatch      \* empty content not allowed
        ELSE [some    |-> TRUE,
              before  |-> SubSeq(text, 1, start_pos - 1),
              content |-> SubSeq(rest, 1, end_pos - 1),
              after   |-> SubSeq(rest, end_pos + Len(end), Len(rest))]

\* find_pattern once the start delimiter has been looked for.
FindPatternStart(text, start, end, start_pos) ==
    IF start_pos = 0 THEN NoMatch
    ELSE FindPatternEnd(text, start, end, start_pos,
                        Find(SubSeq(text, start_pos + Len(start), Len(text)), end))

FindPattern(text, start, end) == FindPatternStart(text, start, end, Find(text, start))

\* The delimiters of try_match_inline with their marks, in the order tried.
InlinePatterns ==
    << [delim |-> <<"*", "*", "*">>, marks |-> <<"strong", "em">>],
       [delim |-> <<"*", "*">>,      marks |-> <<"strong">>],
       [delim |-> <<"~", "~">>,      marks |-> <<"strike">>],
       [delim |-> <<Backtick>>,      marks |-> <<"code">>],
       [delim |-> <<"*">>,           marks |-> <<"em">>],
       [delim |-> <<"_">>,           marks |-> <<"em">>] >>

RECURSIVE TryPatternsFrom(_, _)

\* `if let Some(m) = find_pattern(..) { return Some(..) }` for the k-th
\* pattern, the later patterns otherwise.
TryPattern(text, k, m) ==
    IF m.some
    THEN [some |-> TRUE, before |-> m.before, content |-> m.content,
          marks |-> InlinePatterns[k].marks, after |-> m.after]
    ELSE TryPatternsFrom(text, k + 1)

TryPatternsFrom(text, k) ==
    IF k > Len(InlinePatterns) THEN NoMatch
    ELSE TryPattern(text, k,
                    FindPattern(text, InlinePatterns[k].delim, InlinePatterns[k].delim))

\* (before, content, marks, after) of the first pattern that matches, or None.
TryMatchInline(text) == TryPatternsFrom(text, 1)

\* json!({ "type": "text", "text": text }), with node["marks"] set only for
\* a non-empty marks.
TextNode(text, marks) ==
    IF marks = <<>> THEN [type |-> "text", text |-> text]
    ELSE [type |-> "text", text |-> text, marks |-> marks]

RECURSIVE InlineLoop(_, _)

\* One round of the loop of parse_inline_formatting, m being what
\* try_match_inline(remaining) returned.
InlineStep(remaining, result, m) ==
    IF m.some
    THEN InlineLoop(m.after,
                    (IF m.before # <<>> THEN Append(result, TextNode(m.before, <<>>))
                                         ELSE result)
                       \o <<TextNode(m.content, m.marks)>>)
    ELSE Append(result, TextNode(remaining, <<>>))

\* `while !remaining.is_empty()` of parse_inline_formatting.
InlineLoop(remaining, result) ==
    IF remaining = <<>> THEN result
    ELSE InlineStep(remaining, result, TryMatchInline(remaining))

\* `if nodes.is_empty() { nodes.push(node) }`
OrJust(nodes, node) == IF nodes = <<>> THEN <<node>> ELSE nodes

ParseInlineFormatting(text) ==
    IF text = <<>> THEN <<TextNode(<<>>, <<>>)>>
    ELSE OrJust(InlineLoop(text, <<>>), TextNode(<<>>, <<>>))

CreateParagraph(text) ==
    [type |-> "paragraph", content |-> ParseInlineFormatting(text)]

\* A number as serde_json holds it: a non-negative or a negative integer.
JsonNumber(n) == IF n >= 0 THEN [pos_int |-> n] ELSE [neg_int |-> n]

CreateHeading(text, level) ==
    [type |-> "heading", attrs |-> [level |-> JsonNumber(level)],
     content |-> ParseInlineFormatting(text)]

\* attrs.language is set only for a non-empty language.
CreateCodeBlock(code, language) ==
    IF language # <<>>
    THEN [type |-> "codeBlock", content |-> <<[type |-> "text", text |-> code]>>,
          attrs |-> [language |-> language]]
    ELSE [type |-> "codeBlock", content |-> <<[type |-> "text", text |-> code]>>]

RECURSIVE ParagraphsOf(_)
\* One paragraph per non-empty line.
ParagraphsOf(ls) ==
    IF ls = <<>> THEN <<>>
    ELSE (IF ls[1] # <<>> THEN <<CreateParagraph(ls[1])>> ELSE <<>>) \o ParagraphsOf(Tail(ls))

CreateBlockquote(text) ==
    [type |-> "blockquote",
     content |-> OrJust(ParagraphsOf(Lines(text)), CreateParagraph(<<>>))]

CreateListItem(text) ==
    [type |-> "listItem",
     content |-> <<[type |-> "paragraph", content |-> ParseInlineFormatting(text)]>>]

Fence == <<Backtick, Backtick, Backtick>>

IsFenceLine(line) == StartsWith(TrimStart(line), Fence)

IsQuoteLine(line) == StartsWith(TrimStart(line), <<">", " ">>) \/ TrimStart(line) = <<">">>

IsBulletLine(line) ==
    StartsWith(TrimStart(line), <<"-", " ">>) \/ StartsWith(TrimStart(line), <<"*", " ">>)

RECURSIVE CountLeading(_, _)
\* chars().take_while(|c| *c == ch).count()
CountLeading(s, ch) == IF s # <<>> /\ Head(s) = ch THEN 1 + CountLeading(Tail(s), ch) ELSE 0

RECURSIVE SkipDigits(_)
SkipDigits(s) == IF s # <<>> /\ IsAsciiDigit(Head(s)) THEN SkipDigits(Tail(s)) ELSE s

\* is_ordered_list_item: digits, then ". ".
IsOrderedListItem(line) ==
    /\ line # <<>>
    /\ IsAsciiDigit(Head(line))
    /\ StartsWith(SkipDigits(line), <<".", " ">>)

RECURSIVE BulletItems(_, _, _)
\* parse_bullet_list from its i-th line on: (ADF node, lines consumed).  The
\* line tested for the two-space continuation is the line after trim_start().
BulletItems(lines, i, items) ==
    IF i > Len(lines)
    THEN [node |-> [type |-> "bulletList", content |-> items], consumed |-> i - 1]
    ELSE LET line == TrimStart(lines[i])
         IN  IF StartsWith(line, <<"-", " ">>) \/ StartsWith(line, <<"*", " ">>)
             THEN BulletItems(lines, i + 1,
                              Append(items, CreateListItem(SubSeq(line, 3, Len(line)))))
             ELSE IF StartsWith(line, <<" ", " ">>) /\ items # <<>>
             THEN BulletItems(lines, i + 1, items)
             ELSE [node |-> [type |-> "bulletList", content |-> items], consumed |-> i - 1]

ParseBulletList(lines) == BulletItems(lines, 1, <<>>)

RECURSIVE OrderedItems(_, _, _)
\* parse_ordered_list from its i-th line on.
OrderedItems(lines, i, items) ==
    IF i > Len(lines)
    THEN [node |-> [type |-> "orderedList", content |-> items], consumed |-> i - 1]
    ELSE LET line == TrimStart(lines[i])
             pos  == Find(line, <<".", " ">>)
         IN  IF IsOrderedListItem(line)
             THEN OrderedItems(lines, i + 1,
                     IF pos > 0
                     THEN Append(items, CreateListItem(SubSeq(line, pos + 2, Len(line))))
                     ELSE items)
             ELSE IF StartsWith(line, <<" ", " ">>) /\ items # <<>>
             THEN OrderedItems(lines, i + 1, items)
             ELSE [node |-> [type |-> "orderedList", content |-> items], consumed |-> i - 1]

ParseOrderedList(lines) == OrderedItems(lines, 1, <<>>)

RECURSIVE FenceFrom(_, _)
\* The first fence line at or after i, Len(lines) + 1 when there is none.
FenceFrom(lines, i) ==
    IF i > Len(lines) THEN i
    ELSE IF IsFenceLine(lines[i]) THEN i
    ELSE FenceFrom(lines, i + 1)

RECURSIVE QuoteEnd(_, _)
\* The first line at or after i that is no quote line.
QuoteEnd(lines, i) ==
    IF i > Len(lines) THEN i
    ELSE IF ~IsQuoteLine(lines[i]) THEN i
    ELSE QuoteEnd(lines, i + 1)

\* "> x" -> "x", ">" -> "".
QuoteText(line) ==
    IF StartsWith(TrimStart(line), <<">", " ">>)
    THEN SubSeq(TrimStart(line), 3, Len(TrimStart(line)))
    ELSE <<>>

RECURSIVE BlockLoop(_, _, _)

\* The code block whose opening fence is line i and whose closing fence is
\* line close; the loop goes on after the closing fence.
CodeBlockTo(lines, i, blocks, close) ==
    BlockLoop(lines, close + 1,
              Append(blocks,
                     CreateCodeBlock(Join(SubSeq(lines, i + 1, close - 1), <<NL>>),
                                     Trim(SubSeq(TrimStart(lines[i]),
                                                 CountLeading(TrimStart(lines[i]), Backtick) + 1,
                                                 Len(TrimStart(lines[i])))))))

\* The blockquote of the lines i .. end - 1.
BlockquoteTo(lines, i, blocks, end) ==
    BlockLoop(lines, end,
              Append(blocks,
                     CreateBlockquote(Join([k \in 1..(end - i) |-> QuoteText(lines[i + k - 1])],
                                           <<NL>>))))

\* The heading of the trimmed line i, of the given level.
HeadingOf(lines, i, blocks, trimmed, level) ==
    BlockLoop(lines, i + 1,
              Append(blocks,
                     CreateHeading(TrimStart(SubSeq(trimmed, level + 1, Len(trimmed))), level)))

\* `blocks.push(list_block); i += consumed;`
ListOf(lines, i, blocks, r) ==
    BlockLoop(lines, i + r.consumed, Append(blocks, r.node))

\* `while i < lines.len()` of parse_markdown_blocks (i counts from 1 here).
BlockLoop(lines, i, blocks) ==
    IF i > Len(lines) THEN blocks
    ELSE IF IsFenceLine(lines[i])
    THEN CodeBlockTo(lines, i, blocks, FenceFrom(lines, i + 1))
    ELSE IF IsQuoteLine(lines[i])
    THEN BlockquoteTo(lines, i, blocks, QuoteEnd(lines, i))
    ELSE IF /\ StartsWith(TrimStart(lines[i]), <<"#">>)
            /\ CountLeading(TrimStart(lines[i]), "#") <= 6
    THEN HeadingOf(lines, i, blocks, TrimStart(lines[i]),
                   CountLeading(TrimStart(lines[i]), "#"))
    ELSE IF IsBulletLine(lines[i])
    THEN ListOf(lines, i, blocks, ParseBulletList(SubSeq(lines, i, Len(lines))))
    ELSE IF IsOrderedListItem(TrimStart(lines[i]))
    THEN ListOf(lines, i, blocks, ParseOrderedList(SubSeq(lines, i, Len(lines))))
    ELSE IF Trim(lines[i]) # <<>>
    THEN BlockLoop(lines, i + 1, Append(blocks, CreateParagraph(Trim(lines[i]))))
    ELSE BlockLoop(lines, i + 1, blocks)

\* parse_markdown_blocks without the final "at least one empty paragraph".
ParseMarkdownBlocksMayBeEmpty(markdown) == BlockLoop(Lines(markdown), 1, <<>>)

ParseMarkdownBlocks(markdown) ==
    OrJust(BlockLoop(Lines(markdown), 1, <<>>), CreateParagraph(<<>>))

MarkdownToAdf(markdown) ==
    [type |-> "doc", version |-> 1, content |-> ParseMarkdownBlocks(markdown)]

(***************************************************************************)
(* ADF -> markdown (Worklog::comment_text, extract_adf_to_markdown).       *)
(***************************************************************************)
Has(node, key) == key \in DOMAIN node

\* obj.get("content").and_then(|c| c.as_array()), empty when absent.
ContentOf(node) == IF Has(node, "content") THEN node.content ELSE <<>>

RECURSIVE Repeat(_, _)
\* str::repeat(n)
Repeat(s, n) == IF n <= 0 THEN <<>> ELSE s \o Repeat(s, n - 1)

Min(a, b) == IF a <= b THEN a ELSE b

\* code innermost, then em, then strong, then strike.
ApplyMarksToText(text, marks) ==
    LET has(m)  == \E i \in 1..Len(marks) : marks[i] = m
        coded   == IF has("code") THEN <<Backtick>> \o text \o <<Backtick>> ELSE text
        em      == IF has("em") THEN <<"*">> \o coded \o <<"*">> ELSE coded
        strong  == IF has("strong") THEN <<"*", "*">> \o em \o <<"*", "*">> ELSE em
    IN  IF has("strike") THEN <<"~", "~">> \o strong \o <<"~", "~">> ELSE strong

\* lines.last_mut().push_str(s), after pushing an empty line onto no lines.
PushStrToLast(lines, str) ==
    IF lines = <<>> THEN <<str>>
    ELSE [lines EXCEPT ![Len(lines)] = @ \o str]

\* attrs.level as u64, 1 when absent or no unsigned number.
HeadingLevel(node) ==
    IF Has(node, "attrs") /\ Has(node.attrs, "level") /\ Has(node.attrs.level, "pos_int")
    THEN node.attrs.level.pos_int
    ELSE 1

CodeLanguage(node) ==
    IF Has(node, "attrs") /\ Has(node.attrs, "language") THEN node.attrs.language ELSE <<>>

RECURSIVE CodeLines(_)
\* The lines of every child's text.
CodeLines(children) ==
    IF children = <<>> THEN <<>>
    ELSE (IF Has(children[1], "text") THEN Lines(children[1].text) ELSE <<>>)
            \o CodeLines(Tail(children))

\* "> " before every non-empty line after the first `from` lines, ">" for an empty one.
QuotePrefix(lines, from) ==
    [i \in 1..Len(lines) |->
        IF i <= from THEN lines[i]
        ELSE IF lines[i] # <<>> THEN <<">", " ">> \o lines[i]
        ELSE <<">">>]

RECURSIVE ExtractAdfToMarkdown(_, _, _)
RECURSIVE ExtractEach(_, _, _)
RECURSIVE ExtractListItems(_, _, _, _, _)
RECURSIVE ExtractListItemChildren(_, _, _, _, _)

\* extract_adf_to_markdown: the lines after the node has been walked.
ExtractAdfToMarkdown(node, lines, indent) ==
    LET node_type == IF Has(node, "type") THEN node.type ELSE ""
    IN  CASE node_type = "text" ->
               IF Has(node, "text")
               THEN PushStrToLast(lines,
                       ApplyMarksToText(node.text,
                                        IF Has(node, "marks") THEN node.marks ELSE <<>>))
               ELSE lines
          [] node_type = "paragraph" ->
               ExtractEach(ContentOf(node), Append(lines, Repeat(<<" ", " ">>, indent)), indent)
          [] node_type = "heading" ->
               ExtractEach(ContentOf(node),
                           Append(lines, Repeat(<<"#">>, Min(HeadingLevel(node), 6)) \o <<" ">>),
                           0)
          [] node_type = "bulletList" ->
               ExtractListItems(ContentOf(node), 1, lines, indent, FALSE)
          [] node_type = "orderedList" ->
               ExtractListItems(ContentOf(node), 1, lines, indent, TRUE)
          [] node_type = "listItem" ->
               ExtractEach(ContentOf(node), lines, indent)
          [] node_type = "codeBlock" ->
               (Append(lines, Fence \o CodeLanguage(node)) \o CodeLines(ContentOf(node)))
                   \o <<Fence>>
          [] node_type = "blockquote" ->
               QuotePrefix(ExtractEach(ContentOf(node), lines, indent), Len(lines))
          [] node_type = "hardBreak" ->
               Append(lines, <<>>)
          [] OTHER ->
               ExtractEach(ContentOf(node), lines, indent)

\* `for child in content { extract_adf_to_markdown(child, lines, indent) }`
ExtractEach(children, lines, indent) ==
    IF children = <<>> THEN lines
    ELSE ExtractEach(Tail(children), ExtractAdfToMarkdown(children[1], lines, indent), indent)

\* The list items numbered as the enumeration counts them, from 0.
ExtractListItemsFromZero(children, i, lines, indent, ordered) ==
    IF i > Len(children) THEN lines
    ELSE LET marker == IF ordered THEN ToDec(i - 1) \o <<".", " ">> ELSE <<"-", " ">>
         IN  ExtractListItems(children, i + 1,
                 ExtractListItemChildren(ContentOf(children[i]), lines, indent, marker, TRUE),
                 indent, ordered)

\* The children of a bulletList / orderedList from the i-th on; the marker of
\* an ordered list is the child's position.
ExtractListItems(children, i, lines, indent, ordered) ==
    IF i > Len(children) THEN lines
    ELSE LET marker == IF ordered THEN ToDec(i) \o <<".", " ">> ELSE <<"-", " ">>
         IN  ExtractListItems(children, i + 1,
                 ExtractListItemChildren(ContentOf(children[i]), lines, indent, marker, TRUE),
                 indent, ordered)

\* extract_list_item_markdown: the first paragraph gets the marker, later
\* ones two spaces; anything else is walked one level deeper.
ExtractListItemChildren(children, lines, indent, marker, first) ==
    IF children = <<>> THEN lines
    ELSE LET child      == children[1]
             child_type == IF Has(child, "type") THEN child.type ELSE ""
         IN  IF child_type = "paragraph"
             THEN LET prefix == IF first THEN Repeat(<<" ", " ">>, indent) \o marker
                                ELSE Repeat(<<" ", " ">>, indent) \o <<" ", " ">>
                  IN  ExtractListItemChildren(Tail(children),
                          ExtractEach(ContentOf(child), Append(lines, prefix), indent + 1),
                          indent, marker, FALSE)
             ELSE ExtractListItemChildren(Tail(children),
                      ExtractAdfToMarkdown(child, lines, indent + 1),
                      indent, marker, first)

NoComment == [some |-> FALSE]

\* A Worklog whose comment holds the given nodes.
WorklogWith(content) ==
    [comment |-> [some |-> TRUE,
                  val  |-> [doc_type |-> "doc", content |-> [some |-> TRUE, val |-> content]]]]

\* Worklog::comment_text
CommentText(worklog) ==
    IF ~worklog.comment.some THEN <<>>
    ELSE IF ~worklog.comment.val.content.some THEN <<>>
    ELSE Trim(Join(ExtractEach(worklog.comment.val.content.val, <<>>, 0), <<NL>>))

(***************************************************************************)
(* Outbound requests (JiraClient::log_time, JiraClient::update_worklog).   *)
(***************************************************************************)
\* CreateWorklogRequest::from_seconds_with_time
FromSecondsWithTime(seconds, date, description, start_time, local_offset) ==
    [timeSpentSeconds |-> seconds,
     started          |-> BuildJiraTimestamp(date, start_time, local_offset),
     comment          |-> MarkdownToAdf(description)]

\* The request log_time posts.
LogTime(seconds, date, description, start_time, local_offset) ==
    [method |-> "POST",
     body   |-> FromSecondsWithTime(seconds, date, description, start_time, local_offset)]

\* The request update_worklog puts: the helper's timestamp, and a comment of
\* one paragraph holding the description as it is.
UpdateWorklog(seconds, description, date, start_time, local_offset) ==
    LET request_helper ==
            FromSecondsWithTime(seconds, date, description, start_time, local_offset)
    IN  [method |-> "PUT",
         body   |-> [timeSpentSeconds |-> seconds,
                     started          |-> request_helper.started,
                     comment          |->
                         [type    |-> "doc",
                          version |-> 1,
                          content |-> <<[type    |-> "paragraph",
                                         content |-> <<[type |-> "text",
                                                        text |-> description]>>]>>]]]

(***************************************************************************)
(* The descriptions the document operations are run on.                    *)
(***************************************************************************)
Text(str) ==
    CASE str = "bullet"   -> <<"-", " ", "a">>
      [] str = "star"     -> <<"*", " ", "b">>
      [] str = "ordered"  -> <<"2", ".", " ", "c">>
      [] str = "heading"  -> <<"#", "#", " ", "d">>
      [] str = "quote"    -> <<">", " ", "e">>
      [] str = "fence"    -> Fence
      [] str = "bold"     -> <<"*", "*", "f", "*", "*", " ", "_", "g", "_">>
      [] str = "plain"    -> <<"h", " ", "i">>
      [] OTHER            -> <<>>

DocLines == {Text(k) : k \in {"bullet", "star", "ordered", "heading", "quote", "fence",
                              "bold", "plain", "blank"}}

\* The lines with "\n" after each but the last.
JoinLines(ls) == Join(ls, <<NL>>)

DocProbes ==
    { <<>>,
      <<"#">>,
      <<"-", " ">>,
      <<">">>,
      <<" ", " ">>,
      <<"1", ".", " ">>,
      <<"*", "*", "*", "x", "*", "*", "*">>,
      <<"~", "~", "x", "~", "~", " ", Backtick, "y", Backtick>>,
      <<"#", "#", "#", "#", "#", "#", "#", " ", "z">>,
      <<"a", "\r", NL, "b", NL>>,
      JoinLines(<<Fence \o <<"r", "s">>, <<"f", "n">>, <<>>, Fence, <<"t">>>>),
      JoinLines(<<Text("bullet"), <<" ", " ", "m", "o", "r", "e">>, Text("star")>>),
      JoinLines(<<Text("ordered"), <<" ", " ", "m", "o", "r", "e">>, Text("ordered")>>),
      JoinLines(<<<<"[", "F", "E", "]", " ", "*", "*", "l", "*", "*">>, <<>>,
                  Text("bullet"), Text("ordered")>>) }

\* Descriptions of up to MaxDocLines lines, each a heading, a list item, a
\* quote, a fence, a paragraph with spans, or blank.
ComposedInputs == {JoinLines(ls) : ls \in SeqsUpTo(DocLines, MaxDocLines)}

DocInputs ==
    ComposedInputs
        \cup SeqsUpTo({"*", "_", "a"}, MaxRawLen)
        \cup DocProbes

DocStartTimes == {NoneText, Some(<<"2", ":", "3", "0", "p", "m">>)}

DocDate == [y |-> 2025, m |-> 12, d |-> 2]

\* The values of a bold text node: delimiter characters and letters, and
\* values with blanks and line breaks.
BoldValues ==
    (SeqsUpTo({"a", "*", "_"}, MaxValueLen) \ {<<>>})
        \cup { <<" ", "x", " ">>, <<"x", " ", "y">>, <<"x", NL, "y">>, <<"x", "\r", NL, "y">>,
               <<"-", " ", "x">>, <<"~", "~", "x", "~", "~">>, <<Backtick, "x", Backtick>> }

\* The marks of the set, as the array of a text node.
MarkSeq(marks) == SelectSeq(<<"strong", "em", "code", "strike">>, LAMBDA m : m \in marks)

\* Text nodes with a value free of delimiters and of outer blanks, and any
\* subset of the four marks.
MarkedNodes ==
    {TextNode(v, MarkSeq(marks)) : v \in {<<"a">>, <<"b", " ", "c">>},
                                   marks \in SUBSET {"strong", "em", "code", "strike"}}

\* Paragraphs of up to MaxMarkedNodes such nodes.
MarkedParagraphs == UNION {[1..k -> MarkedNodes] : k \in 1..MaxMarkedNodes}

BoldDocument(v) ==
    <<[type |-> "paragraph", content |-> <<[type |-> "text", text |-> v, marks |-> <<"strong">>]>>]>>

ItemNumbers == { <<"1">>, <<"7">>, <<"1", "0">>, <<"0", "0", "9", "9">> }

ItemTexts == { <<"x">>, <<"a", ".", " ", "b">>, <<>> }

\* The lines ns[i] ". " ts[i], one per item.
OrderedLines(ns, ts) == JoinLines([i \in 1..Len(ns) |-> ns[i] \o <<".", " ">> \o ts[i]])

\* The values of the level attribute: numbers from below 0 to above 6, a
\* string and null.
JsonLevels ==
    {JsonNumber(n) : n \in (-2)..MaxHeadingLevel} \cup {[string |-> <<"2">>], [null |-> TRUE]}

\* Heading nodes with one text child: with each level, with attrs without a
\* level, and without attrs.
HeadingNodes ==
    LET content == <<[type |-> "text", text |-> <<"t">>]>>
    IN  {[type |-> "heading", attrs |-> [level |-> v], content |-> content] : v \in JsonLevels}
            \cup {[type |-> "heading", attrs |-> [id |-> <<"h">>], content |-> content],
                  [type |-> "heading", content |-> content]}

InitDoc ==
    /\ \/ call \in [fn : {"log_time", "update_worklog"}, seconds : {1800},
                    date : {DocDate}, description : DocInputs,
                    start_time : DocStartTimes, local_offset : {0}]
       \/ call \in [fn : {"markdown_to_adf"}, markdown : DocInputs]
       \/ \E s \in DocInputs :
             \* a worklog whose comment log_time saved from the description s
             call = [fn |-> "comment_text", markdown |-> s,
                     worklog |-> WorklogWith(MarkdownToAdf(s).content)]
       \/ \E v \in BoldValues :
             \* a worklog whose comment is one paragraph of one bold text node
             call = [fn |-> "comment_text", value |-> v, worklog |-> WorklogWith(BoldDocument(v))]
       \/ \E nodes \in MarkedParagraphs :
             \* a worklog whose comment is one paragraph of marked text nodes
             call = [fn |-> "comment_text", nodes |-> nodes,
                     worklog |-> WorklogWith(<<[type |-> "paragraph", content |-> nodes]>>)]
       \/ \E node \in HeadingNodes :
             \* a worklog whose comment is one heading
             call = [fn |-> "comment_text", heading |-> node, worklog |-> WorklogWith(<<node>>)]
       \/ \E k \in 1..MaxItems : \E ns \in [1..k -> ItemNumbers], ts \in [1..k -> ItemTexts] :
             \* k ordered-list lines "n. t"
             call = [fn |-> "markdown_to_adf", markdown |-> OrderedLines(ns, ts),
                     numbers |-> ns, texts |-> ts]
    /\ ret = None
    /\ pc = "call"
    /\ AppNotStarted

CallLogTime ==
    /\ pc = "call"
    /\ call.fn = "log_time"
    /\ ret' = LogTime(call.seconds, call.date, call.description, call.start_time,
                      call.local_offset)
    /\ pc' = "done"
    /\ UNCHANGED <<call, appVars>>

CallUpdateWorklog ==
    /\ pc = "call"
    /\ call.fn = "update_worklog"
    /\ ret' = UpdateWorklog(call.seconds, call.description, call.date, call.start_time,
                            call.local_offset)
    /\ pc' = "done"
    /\ UNCHANGED <<call, appVars>>

CallMarkdownToAdf ==
    /\ pc = "call"
    /\ call.fn = "markdown_to_adf"
    /\ ret' = MarkdownToAdf(call.markdown)
    /\ pc' = "done"
    /\ UNCHANGED <<call, appVars>>

CallCommentText ==
    /\ pc = "call"
    /\ call.fn = "comment_text"
    /\ ret' = CommentText(call.worklog)
    /\ pc' = "done"
    /\ UNCHANGED <<call, appVars>>

NextDoc == CallLogTime \/ CallUpdateWorklog \/ CallMarkdownToAdf \/ CallCommentText

SpecDoc == InitDoc /\ [][NextDoc]_vars

(***************************************************************************)
(* C8: for both log_time and update_worklog, the comment of the request    *)
(* is markdown_to_adf(description), i.e. {type: "doc", version: 1,         *)
(* content: the description parsed into block nodes}: an edited            *)
(* description is sent as structured nodes on update exactly as on create. *)
(***************************************************************************)
C8_CommentIsConvertedDescription ==
    (pc = "done" /\ call.fn \in {"log_time", "update_worklog"}) =>
        ret.body.comment = MarkdownToAdf(call.description)

(***************************************************************************)
(* What the document claims speak of.                                      *)
(***************************************************************************)
EmptyTextNode == [type |-> "text", text |-> <<>>]

EmptyParagraph == [type |-> "paragraph", content |-> <<EmptyTextNode>>]

\* At least one node, all of them text nodes, and an empty value only in a
\* node that stands alone.
InlineOk(content) ==
    /\ Len(content) >= 1
    /\ \A i \in 1..Len(content) : content[i].type = "text" /\ Has(content[i], "text")
    /\ (\E i \in 1..Len(content) : content[i].text = <<>>) => content = <<EmptyTextNode>>

RECURSIVE NodeOk(_)
\* Every paragraph and heading at or below the node holds text.
NodeOk(node) ==
    CASE node.type \in {"paragraph", "heading"} -> InlineOk(ContentOf(node))
      [] node.type = "listItem" ->
            /\ Len(ContentOf(node)) >= 1
            /\ \A i \in 1..Len(node.content) :
                  node.content[i].type = "paragraph" /\ NodeOk(node.content[i])
      [] node.type \in {"bulletList", "orderedList", "blockquote"} ->
            \A i \in 1..Len(ContentOf(node)) : NodeOk(node.content[i])
      [] OTHER -> TRUE

\* No line of the text holds anything but whitespace.
ProducesNoBlock(markdown) ==
    \A i \in 1..Len(Lines(markdown)) : Trim(Lines(markdown)[i]) = <<>>

(***************************************************************************)
(* C9: for every input text, markdown_to_adf returns a root of type "doc"  *)
(* and version 1 whose content holds at least one block node (a single     *)
(* empty paragraph when the input produces no block), and every paragraph, *)
(* heading and list-item paragraph in it holds at least one text node      *)
(* (exactly one, with an empty value, when its text is empty).             *)
(***************************************************************************)
C9_DocumentIsNeverEmpty ==
    (pc = "done" /\ call.fn = "markdown_to_adf") =>
        /\ ret.type = "doc"
        /\ ret.version = 1
        /\ Len(ret.content) >= 1
        /\ ProducesNoBlock(call.markdown) => ret.content = <<EmptyParagraph>>
        /\ \A i \in 1..Len(ret.content) : NodeOk(ret.content[i])
        /\ ParseInlineFormatting(<<>>) = <<EmptyTextNode>>

\* A text of two spaces has been converted to the single empty paragraph.
C9_Witness ==
    /\ pc = "done"
    /\ call.fn = "markdown_to_adf"
    /\ call.markdown = <<" ", " ">>
    /\ ret = [type |-> "doc", version |-> 1, content |-> <<EmptyParagraph>>]

BlockKinds(content) == [i \in 1..Len(content) |-> content[i].type]

MarkSet(node) ==
    IF Has(node, "marks") THEN {node.marks[i] : i \in 1..Len(node.marks)} ELSE {}

RECURSIVE TextRuns(_)
\* The text nodes at or below the nodes, in order, each with its set of marks.
TextRuns(nodes) ==
    IF nodes = <<>> THEN <<>>
    ELSE (IF nodes[1].type = "text"
          THEN <<[text |-> nodes[1].text, marks |-> MarkSet(nodes[1])]>>
          ELSE TextRuns(ContentOf(nodes[1])))
            \o TextRuns(Tail(nodes))

SameDocument(a, b) ==
    /\ BlockKinds(a) = BlockKinds(b)
    /\ TextRuns(a) = TextRuns(b)

(***************************************************************************)
(* C10: for every text s built only from the supported constructs,         *)
(* to_document(to_text(to_document(s))) has the same sequence of block     *)
(* kinds and the same text runs with the same marks (code-block contents   *)
(* included) as to_document(s).                                            *)
(***************************************************************************)
C10_RoundTripIdempotent ==
    (/\ pc = "done" /\ call.fn = "comment_text"
     /\ Has(call, "markdown") /\ call.markdown \in ComposedInputs) =>
        SameDocument(MarkdownToAdf(ret).content, MarkdownToAdf(call.markdown).content)

(***************************************************************************)
(* C11: for a document of one paragraph with a single text node carrying   *)
(* only the bold mark and any non-empty value v, to_text returns exactly   *)
(* "**" v "**", and to_document followed by to_text applied to that text   *)
(* returns the same text again.                                            *)
(***************************************************************************)
C11_BoldRunIsFixedPoint ==
    (pc = "done" /\ call.fn = "comment_text" /\ Has(call, "value")) =>
        /\ ret = <<"*", "*">> \o call.value \o <<"*", "*">>
        /\ CommentText(WorklogWith(MarkdownToAdf(ret).content)) = ret

\* The typed numbers are not in the node, the items are, in input order.
IsOrderedListOf(node, ts) ==
    /\ DOMAIN node = {"type", "content"}
    /\ node.type = "orderedList"
    /\ Len(node.content) = Len(ts)
    /\ \A i \in 1..Len(ts) :
          node.content[i] = [type |-> "listItem",
                             content |-> <<[type    |-> "paragraph",
                                            content |-> ParseInlineFormatting(ts[i])]>>]

\* "1. t_1", "2. t_2", ...
NumberedByPosition(ts) == [i \in 1..Len(ts) |-> ToDec(i) \o <<".", " ">> \o ts[i]]

(***************************************************************************)
(* C12: for every run of k consecutive ordered-list lines "n_i. t_i" with  *)
(* arbitrary numbers n_i, to_document produces one orderedList of k items  *)
(* in input order that does not record the n_i, and to_text of that list   *)
(* emits the items numbered 1..k by position, whatever digits were typed   *)
(* (comment_text then trims the joined lines at both ends).                *)
(***************************************************************************)
C12_OrderedListRenumbered ==
    (pc = "done" /\ call.fn = "markdown_to_adf" /\ Has(call, "numbers")) =>
        /\ Len(ret.content) = 1
        /\ IsOrderedListOf(ret.content[1], call.texts)
        /\ ExtractEach(ret.content, <<>>, 0) = NumberedByPosition(call.texts)
        /\ CommentText(WorklogWith(ret.content))
              = Trim(JoinLines(NumberedByPosition(call.texts)))

\* "7. x", "0099. a. b" and "10. x" have become the list "1. x", "2. a. b", "3. x".
C12_Witness ==
    /\ pc = "done"
    /\ call.fn = "markdown_to_adf"
    /\ Has(call, "numbers")
    /\ call.numbers = << <<"7">>, <<"0", "0", "9", "9">>, <<"1", "0">> >>
    /\ call.texts = << <<"x">>, <<"a", ".", " ", "b">>, <<"x">> >>
    /\ CommentText(WorklogWith(ret.content))
          = <<"1", ".", " ", "x", NL, "2", ".", " ", "a", ".", " ", "b", NL, "3", ".", " ", "x">>

(***************************************************************************)
(* Weeks (ui/views.rs).  A NaiveDate is held as its number of days from    *)
(* the common era, as chrono's num_days_from_ce: day 1 is 0001-01-01, a    *)
(* Monday, and adding a Duration of n days adds n.                         *)
(***************************************************************************)
IsLeapYear(y) == (y % 4 = 0 /\ y % 100 # 0) \/ y % 400 = 0

DaysBeforeMonth(y, m) ==
    <<0, 31, 59, 90, 120, 151, 181, 212, 243, 273, 304, 334>>[m]
        + (IF m > 2 /\ IsLeapYear(y) THEN 1 ELSE 0)

\* NaiveDate::from_ymd_opt(y, m, d), for a year of the common era.
DaysFromCe(y, m, d) ==
    365 * (y - 1) + (y - 1) \div 4 - (y - 1) \div 100 + (y - 1) \div 400
        + DaysBeforeMonth(y, m) + d

\* Local::now().date_naive() on Tuesday 2025-12-02.
Today == DaysFromCe(2025, 12, 2)

\* Datelike::weekday().num_days_from_monday(): 0 for Monday .. 6 for Sunday.
NumDaysFromMonday(date) == (date - 1) % 7

\* week_start with the days counted from Sunday.
WeekStartFromSunday(date) == date - (date % 7)

\* week_start(date)
WeekStart(date) == date - NumDaysFromMonday(date)

\* WeekData::new
WeekDataNew(week_start) == [week_start |-> week_start, entries |-> <<>>]

\* WeekData::all_days
AllDays(week) == [i \in 1..7 |-> week.week_start + (i - 1)]

\* WeekData::entries_for_day
EntriesForDay(week, date) == SelectSeq(week.entries, LAMBDA e : e.date = date)

RECURSIVE SumSeconds(_)
\* .map(|e| e.seconds).sum()
SumSeconds(entries) ==
    IF entries = <<>> THEN 0 ELSE Head(entries).seconds + SumSeconds(Tail(entries))

\* seconds_for_day with the filter on the date left out.
SecondsForDaySumsTheWeek(week, date) == SumSeconds(week.entries)

\* WeekData::seconds_for_day
SecondsForDay(week, date) == SumSeconds(SelectSeq(week.entries, LAMBDA e : e.date = date))

(***************************************************************************)
(* Inputs: the dates around today and around day 0 (the weekday of a date  *)
(* before the common era is that of the proleptic calendar), and weeks of  *)
(* up to MaxWeekEntries entries.                                           *)
(***************************************************************************)
DateWindow == ((Today - MaxDateSpan)..(Today + MaxDateSpan)) \cup ((-MaxDateSpan)..MaxDateSpan)

EntryDates == {WeekStart(Today), WeekStart(Today) + 1}

DayQueries == EntryDates \cup {WeekStart(Today) + 2}

TimeEntries ==
    [worklog_id : {"10001", "10002"}, issue_key : {"TIM-1"}, issue_summary : {"Meetings"},
     issue_type : {"Task"}, seconds : {900, 3600}, description : {""}, date : EntryDates,
     start_time : {"09:00"}]

WeekDatas == [week_start : {WeekStart(Today)}, entries : SeqsUpTo(TimeEntries, MaxWeekEntries)]

InitWeek ==
    /\ call \in [fn : {"week_start"}, date : DateWindow]
            \cup [fn : {"all_days"}, week : {WeekDataNew(d) : d \in DateWindow}]
            \cup [fn : {"entries_for_day", "seconds_for_day"}, week : WeekDatas, date : DayQueries]
    /\ ret = None
    /\ pc = "call"
    /\ AppNotStarted

CallWeekStart ==
    /\ pc = "call"
    /\ call.fn = "week_start"
    /\ ret' = WeekStart(call.date)
    /\ pc' = "done"
    /\ UNCHANGED <<call, appVars>>

CallAllDays ==
    /\ pc = "call"
    /\ call.fn = "all_days"
    /\ ret' = AllDays(call.week)
    /\ pc' = "done"
    /\ UNCHANGED <<call, appVars>>

CallEntriesForDay ==
    /\ pc = "call"
    /\ call.fn = "entries_for_day"
    /\ ret' = EntriesForDay(call.week, call.date)
    /\ pc' = "done"
    /\ UNCHANGED <<call, appVars>>

CallSecondsForDay ==
    /\ pc = "call"
    /\ call.fn = "seconds_for_day"
    /\ ret' = SecondsForDay(call.week, call.date)
    /\ pc' = "done"
    /\ UNCHANGED <<call, appVars>>

NextWeek == CallWeekStart \/ CallAllDays \/ CallEntriesForDay \/ CallSecondsForDay

SpecWeek == InitWeek /\ [][NextWeek]_vars

\* The weekday of a date, counted from the known Monday 2025-12-01 rather
\* than from day 1.
IsMonday(date) == (date - (Today - 1)) % 7 = 0

(***************************************************************************)
(* C14: for every date d, week_start(d) is a Monday with                   *)
(* 0 <= d - week_start(d) <= 6 days, and for every WeekData w, all_days()  *)
(* returns exactly the 7 dates w.week_start + 0, +1, ..., +6 days in       *)
(* ascending order.                                                        *)
(***************************************************************************)
C14_WeekStartsOnMonday ==
    /\ (pc = "done" /\ call.fn = "week_start") =>
          /\ IsMonday(ret)
          /\ 0 <= call.date - ret
          /\ call.date - ret <= 6
    /\ (pc = "done" /\ call.fn = "all_days") =>
          /\ Len(ret) = 7
          /\ ret[1] = call.week.week_start
          /\ \A i \in 1..6 : ret[i + 1] = ret[i] + 1

\* Sunday 2025-12-07 belongs to the week of Monday 2025-12-01, and a date
\* before the common era has its Monday too.
C14_Witness ==
    /\ pc = "done"
    /\ call.fn = "week_start"
    /\ \/ call.date = Today + 5 /\ ret = Today - 1
       \/ call.date = -3 /\ ret = -6

\* The indices of the entries of the week dated date.
IndicesOfDay(week, date) == {i \in 1..Len(week.entries) : week.entries[i].date = date}

\* The k-th smallest member of a set of indices.
KthOf(indices, k) == CHOOSE i \in indices : Cardinality({j \in indices : j <= i}) = k

RECURSIVE SecondsOver(_, _)
\* The sum of seconds over the entries at the indices.
SecondsOver(entries, indices) ==
    IF indices = {} THEN 0
    ELSE LET i == CHOOSE j \in indices : TRUE
         IN  entries[i].seconds + SecondsOver(entries, indices \ {i})

(***************************************************************************)
(* C15: for every WeekData and every date d, seconds_for_day(d) equals the *)
(* sum of seconds over exactly the entries whose date equals d (0 when     *)
(* there is none), and entries_for_day(d) returns exactly those entries in *)
(* stored order.                                                           *)
(***************************************************************************)
C15_DayTotals ==
    /\ (pc = "done" /\ call.fn = "seconds_for_day") =>
          ret = SecondsOver(call.week.entries, IndicesOfDay(call.week, call.date))
    /\ (pc = "done" /\ call.fn = "entries_for_day") =>
          /\ Len(ret) = Cardinality(IndicesOfDay(call.week, call.date))
          /\ \A k \in 1..Len(ret) :
                ret[k] = call.week.entries[KthOf(IndicesOfDay(call.week, call.date), k)]

\* A week holding entries of two days, the asked day first and last.
C15_Witness ==
    /\ pc = "done"
    /\ call.fn = "seconds_for_day"
    /\ Len(call.week.entries) = 3
    /\ call.week.entries[1].date = call.date
    /\ call.week.entries[2].date # call.date
    /\ call.week.entries[3].date = call.date
    /\ call.week.entries[1].seconds = 900
    /\ call.week.entries[3].seconds = 3600
    /\ ret = 4500

(***************************************************************************)
(* The application (ui/app.rs): JiraTimeApp in the state Main, with a      *)
(* configured account.  The model holds the fields the week view, the      *)
(* add/edit dialog, the delete confirmation, the progress bar and the      *)
(* self-update work with; the issue autocomplete and the settings are left *)
(* out.                                                                    *)
(* A task spawned on the runtime is first "sent", then "answered" once     *)
(* Jira has handled its request, and leaves `tasks` when it sends its      *)
(* result on the channel.                                                  *)
(***************************************************************************)
IssueKey == "TIM-1"

IssueSummary == "MEETINGS"

IssueType == "Task"

\* The ids Jira gives to worklogs, in the order it assigns them.
WorklogIds == <<"10001", "10002", "10003", "10004">>

TimeEntry(worklog_id, seconds, description, date, start_time) ==
    [worklog_id |-> worklog_id, issue_key |-> IssueKey, issue_summary |-> IssueSummary,
     issue_type |-> IssueType, seconds |-> seconds, description |-> description,
     date |-> date, start_time |-> start_time]

NineOClock == <<"0", "9", ":", "0", "0">>

TenOClock == <<"1", "0", ":", "0", "0">>

\* What Jira holds at the start: a worklog on the Monday of this week and
\* one on the Monday of the next.
InitialServer ==
    [worklogs |-> << TimeEntry(WorklogIds[1], 1800, <<"a">>, WeekStart(Today), NineOClock),
                     TimeEntry(WorklogIds[2], 1800, <<"a">>, WeekStart(Today) + 7, NineOClock) >>,
     issued   |-> 2]

\* The byte order of the characters of a start time.
CharOrd(c) == IF c = ":" THEN 10 ELSE DigitVal(c)

RECURSIVE StrLess(_, _)
\* a < b as Rust compares strings.
StrLess(a, b) ==
    IF b = <<>> THEN FALSE
    ELSE IF a = <<>> THEN TRUE
    ELSE IF Head(a) # Head(b) THEN CharOrd(Head(a)) < CharOrd(Head(b))
    ELSE StrLess(Tail(a), Tail(b))

\* a.date.cmp(&b.date).then_with(|| a.start_time.cmp(&b.start_time)) is Less
EntryLess(a, b) ==
    a.date < b.date \/ (a.date = b.date /\ StrLess(a.start_time, b.start_time))

RECURSIVE InsertSorted(_, _)
\* e put behind the entries of a sorted list that are not greater than it.
InsertSorted(sorted, e) ==
    IF sorted = <<>> THEN <<e>>
    ELSE IF EntryLess(e, Head(sorted)) THEN <<e>> \o sorted
    ELSE <<Head(sorted)>> \o InsertSorted(Tail(sorted), e)

RECURSIVE SortInto(_, _)
SortInto(sorted, entries) ==
    IF entries = <<>> THEN sorted
    ELSE SortInto(InsertSorted(sorted, Head(entries)), Tail(entries))

\* entries.sort_by(date, then start_time): a stable sort.
SortEntries(entries) == SortInto(<<>>, entries)

\* The least slot no task in flight holds.
FreeSlot(ts) == CHOOSE i \in 1..(Cardinality(ts) + 1) :
                    /\ \A t \in ts : t.slot # i
                    /\ \A j \in 1..(i - 1) : \E t \in ts : t.slot = j

\* self.runtime.spawn(async move { ... })
Spawn(ts, kind, arg) ==
    ts \cup {[slot |-> FreeSlot(ts), kind |-> kind, arg |-> arg, phase |-> "sent",
              result |-> [kind |-> "None"]]}

\* JiraTimeApp::load_weekly_buckets, on the application a and the tasks ts.
LoadWeeklyBuckets(w, week_start_date) ==
    IF w.app.weekly_buckets_loading THEN w
    ELSE IF w.app.weekly_buckets_week = Some(week_start_date) THEN w
    ELSE [app   |-> [w.app EXCEPT !.weekly_buckets_loading = TRUE],
          tasks |-> Spawn(w.tasks, "buckets", [week_start |-> week_start_date])]

\* The task of load_week spawned.
SpawnLoad(w, week_start_date) ==
    [w EXCEPT !.tasks = Spawn(@, "load", [start_date |-> week_start_date,
                                           end_date   |-> week_start_date + 6])]

\* JiraTimeApp::load_week
LoadWeek(w, week_start_date) ==
    IF w.app.loading
    THEN [w EXCEPT !.app.week_data.week_start = week_start_date]
    ELSE SpawnLoad(LoadWeeklyBuckets([w EXCEPT !.app.week_data = WeekDataNew(week_start_date),
                                               !.app.loading = TRUE,
                                               !.app.progress_phase = "FastStart"],
                                     week_start_date),
                   week_start_date)

\* JiraTimeApp::refresh_data
RefreshData(w) == LoadWeek(w, w.app.week_data.week_start)

\* JiraTimeApp::check_for_updates
CheckForUpdates(w) ==
    IF w.app.update_checking THEN w
    ELSE [app   |-> [w.app EXCEPT !.update_checking = TRUE],
          tasks |-> Spawn(w.tasks, "check_update", <<>>)]

\* JiraTimeApp::apply_update
ApplyUpdate(w) ==
    IF w.app.update_applying THEN w
    ELSE [app   |-> [w.app EXCEPT !.update_applying = TRUE, !.status_message = "None",
                                  !.progress_phase = "FastStart"],
          tasks |-> Spawn(w.tasks, "apply_update", <<>>)]

\* JiraTimeApp::open_add_dialog
OpenAddDialog(a) ==
    [a EXCEPT !.dialog_mode = "Add", !.dialog_hours = <<>>, !.dialog_issue = "",
              !.dialog_description = <<>>, !.dialog_worklog_id = "",
              !.dialog_start_time = <<>>, !.error_issue = FALSE, !.error_hours = FALSE,
              !.validated_issue = None, !.show_dialog = TRUE]

\* JiraTimeApp::open_edit_dialog (no category tags are configured)
OpenEditDialog(a, entry) ==
    [a EXCEPT !.dialog_mode = "Edit",
              !.dialog_hours = FormatDurationWithFormat(entry.seconds, "HoursMinutes"),
              !.dialog_issue = entry.issue_key,
              !.dialog_description = Trim(entry.description),
              !.dialog_worklog_id = entry.worklog_id,
              !.dialog_start_time = entry.start_time,
              !.error_issue = FALSE, !.error_hours = FALSE,
              !.validated_issue = Some(<<entry.issue_key, entry.issue_summary, entry.issue_type>>),
              !.show_dialog = TRUE]

\* JiraTimeApp::delete_worklog
DeleteWorklog(w, entry) ==
    [app   |-> [w.app EXCEPT !.loading = TRUE, !.progress_phase = "FastStart"],
     tasks |-> Spawn(w.tasks, "delete", [issue_key  |-> entry.issue_key,
                                         worklog_id |-> entry.worklog_id])]

\* save_dialog: is_validated
IsValidated(a) == a.validated_issue.some /\ a.validated_issue.val[1] = a.dialog_issue

\* save_dialog: the request the spawned task makes.
SaveRequest(a) ==
    [is_edit       |-> a.dialog_mode = "Edit",
     issue_key     |-> a.dialog_issue,
     issue_summary |-> a.validated_issue.val[2],
     issue_type    |-> a.validated_issue.val[3],
     worklog_id    |-> a.dialog_worklog_id,
     seconds       |-> ParseDuration(a.dialog_hours).val,
     description   |-> a.dialog_description,
     date          |-> a.selected_date,
     start_time    |-> IF Trim(a.dialog_start_time) = <<>> THEN NoneText
                       ELSE [some |-> TRUE, val |-> a.dialog_start_time]]

\* save_dialog with the loading flag raised before the fields are validated.
SaveDialogLoadsBeforeValidating(w) ==
    LET error_issue == w.app.dialog_issue = "" \/ ~IsValidated(w.app)
        error_hours == ~ParseDuration(w.app.dialog_hours).some
    IN  IF error_issue \/ error_hours
        THEN [w EXCEPT !.app.error_issue = error_issue, !.app.error_hours = error_hours,
                       !.app.loading = TRUE]
        ELSE [app   |-> [w.app EXCEPT !.error_issue = FALSE, !.error_hours = FALSE,
                                      !.loading = TRUE, !.progress_phase = "FastStart"],
              tasks |-> Spawn(w.tasks, "save", SaveRequest(w.app))]

\* JiraTimeApp::save_dialog
SaveDialog(w) ==
    LET error_issue == w.app.dialog_issue = "" \/ ~IsValidated(w.app)
        error_hours == ~ParseDuration(w.app.dialog_hours).some
    IN  IF error_issue \/ error_hours
        THEN [w EXCEPT !.app.error_issue = error_issue, !.app.error_hours = error_hours]
        ELSE [app   |-> [w.app EXCEPT !.error_issue = FALSE, !.error_hours = FALSE,
                                      !.loading = TRUE, !.progress_phase = "FastStart"],
              tasks |-> Spawn(w.tasks, "save", SaveRequest(w.app))]

RECURSIVE UpdateExisting(_, _)
\* `if let Some(existing) = entries.iter_mut().find(|e| e.worklog_id == entry.worklog_id)`:
\* the first entry with the id takes the seconds, description and start time.
UpdateExisting(entries, entry) ==
    IF entries = <<>> THEN <<>>
    ELSE IF Head(entries).worklog_id = entry.worklog_id
    THEN <<[Head(entries) EXCEPT !.seconds = entry.seconds,
                                 !.description = entry.description,
                                 !.start_time = entry.start_time]>> \o Tail(entries)
    ELSE <<Head(entries)>> \o UpdateExisting(Tail(entries), entry)

\* One arm of the match in check_async_results.
ApplyResult(a, result) ==
    CASE result.kind = "WorklogsLoaded" ->
            [a EXCEPT !.week_data.entries = result.entries, !.loading = FALSE,
                      !.is_offline = FALSE, !.status_message = "None",
                      !.progress_phase = "Completing"]
      [] result.kind = "WorklogSaved" ->
            [a EXCEPT !.loading = FALSE, !.show_dialog = FALSE,
                      !.progress_phase = "Completing",
                      !.week_data.entries =
                          IF result.is_edit
                          THEN SortEntries(UpdateExisting(@, result.entry))
                          ELSE SortEntries(Append(@, result.entry))]
      [] result.kind = "WorklogDeleted" ->
            [a EXCEPT !.loading = FALSE,
                      !.progress_phase = "Completing",
                      !.week_data.entries =
                          SelectSeq(@, LAMBDA e : e.worklog_id # result.worklog_id)]
      [] result.kind = "WeeklyBucketsLoaded" ->
            [a EXCEPT !.weekly_buckets = result.buckets,
                      !.weekly_buckets_week = Some(a.week_data.week_start),
                      !.weekly_buckets_loading = FALSE]
      [] result.kind = "Error" ->
            [a EXCEPT !.loading = FALSE, !.is_offline = FALSE, !.status_message = "Error",
                      !.progress_phase = "Shrinking"]
      [] result.kind = "Offline" ->
            [a EXCEPT !.loading = FALSE, !.is_offline = TRUE, !.status_message = "None",
                      !.progress_phase = "Shrinking"]
      [] result.kind = "UpdateAvailable" ->
            [a EXCEPT !.update_checking = FALSE, !.update_info = TRUE]
      [] result.kind = "UpdateApplied" ->
            \* macOS: a message to the user; elsewhere the new process is
            \* spawned (when current_exe() is known) and the window closed.
            IF a.target_os = "macos"
            THEN [a EXCEPT !.update_applying = FALSE, !.status_message = "Updated"]
            ELSE [a EXCEPT !.update_applying = FALSE, !.restart_pending = TRUE]
      [] result.kind = "UpdateError" ->
            [a EXCEPT !.update_applying = FALSE, !.status_message = "Error"]

RECURSIVE ApplyResults(_, _)
\* `while let Ok(result) = self.result_rx.try_recv() { match result ... }`
ApplyResults(a, results) ==
    IF results = <<>> THEN a
    ELSE ApplyResults(ApplyResult(a, Head(results)), Tail(results))

(***************************************************************************)
(* Jira.  A description of plain text comes back from a fetch as it was    *)
(* sent, and the time of day Jira returns is the one it was given, 09:00   *)
(* when none parsed.                                                       *)
(***************************************************************************)
HasWorklog(s, worklog_id) == \E i \in 1..Len(s.worklogs) : s.worklogs[i].worklog_id = worklog_id

\* extract_time(&worklog.started) of the worklog Jira answers with.
StartedTime(start_time) ==
    LET parsed == IF start_time.some THEN ParseStartTime(start_time.val) ELSE NoneText
    IN  IF parsed.some THEN SubSeq(parsed.val, 1, 5) ELSE NineOClock

\* The TimeEntry the save task builds from its request and Jira's answer.
SavedEntry(request, worklog_id) ==
    [worklog_id |-> worklog_id, issue_key |-> request.issue_key,
     issue_summary |-> request.issue_summary, issue_type |-> request.issue_type,
     seconds |-> request.seconds, description |-> request.description,
     date |-> request.date, start_time |-> StartedTime(request.start_time)]

\* Whether Jira can carry out the request of the task.
JiraAccepts(s, t) ==
    CASE t.kind = "save"   -> IF t.arg.is_edit THEN HasWorklog(s, t.arg.worklog_id)
                              ELSE s.issued < MaxWorklogs
      [] t.kind = "delete" -> HasWorklog(s, t.arg.worklog_id)
      [] OTHER             -> TRUE

\* Jira after the request of the task.
JiraAfter(s, t) ==
    CASE t.kind = "save" /\ t.arg.is_edit ->
            [s EXCEPT !.worklogs =
                [i \in 1..Len(@) |->
                    IF @[i].worklog_id = t.arg.worklog_id
                    THEN SavedEntry(t.arg, t.arg.worklog_id) ELSE @[i]]]
      [] t.kind = "save" /\ ~t.arg.is_edit ->
            [worklogs |-> Append(s.worklogs, SavedEntry(t.arg, WorklogIds[s.issued + 1])),
             issued   |-> s.issued + 1]
      [] t.kind = "delete" ->
            [s EXCEPT !.worklogs = SelectSeq(@, LAMBDA e : e.worklog_id # t.arg.worklog_id)]
      [] OTHER -> s

\* The AsyncResult the task sends after Jira carried out its request.
ResultOf(s, t) ==
    CASE t.kind = "load" ->
            [kind    |-> "WorklogsLoaded",
             entries |-> SelectSeq(s.worklogs,
                                   LAMBDA e : t.arg.start_date <= e.date /\ e.date <= t.arg.end_date)]
      [] t.kind = "save" ->
            [kind    |-> "WorklogSaved",
             entry   |-> SavedEntry(t.arg, IF t.arg.is_edit THEN t.arg.worklog_id
                                           ELSE WorklogIds[s.issued + 1]),
             is_edit |-> t.arg.is_edit]
      [] t.kind = "delete" ->
            [kind |-> "WorklogDeleted", worklog_id |-> t.arg.worklog_id]
      [] t.kind = "buckets" ->
            [kind |-> "WeeklyBucketsLoaded", buckets |-> {t.arg.week_start}]

\* The AsyncResult the task sends when its request failed.
FailureOf(t, offline) ==
    IF t.kind = "buckets" THEN [kind |-> "WeeklyBucketsLoaded", buckets |-> {}]
    ELSE IF offline THEN [kind |-> "Offline"]
    ELSE [kind |-> "Error"]

(***************************************************************************)
(* The application started (JiraTimeApp::new, which ends in refresh_data), *)
(* the clicks of the user, the tasks and the frames.                       *)
(***************************************************************************)
\* new with the week of the view starting today.
NewAppOnToday(view_mode, target_os) ==
    [state |-> "Main", view_mode |-> view_mode, target_os |-> target_os,
     selected_date |-> Today,
     week_data |-> WeekDataNew(Today),
     weekly_buckets |-> {}, weekly_buckets_week |-> None, weekly_buckets_loading |-> FALSE,
     show_dialog |-> FALSE, dialog_mode |-> "Add", dialog_hours |-> <<>>, dialog_issue |-> "",
     dialog_description |-> <<>>, dialog_worklog_id |-> "", dialog_start_time |-> <<>>,
     error_issue |-> FALSE, error_hours |-> FALSE, validated_issue |-> None,
     pending_delete |-> None, show_delete_confirm |-> FALSE,
     status_message |-> "None", loading |-> FALSE, is_offline |-> FALSE,
     update_info |-> FALSE, update_checking |-> FALSE, update_applying |-> FALSE,
     restart_pending |-> FALSE, progress_phase |-> "Idle"]

NewApp(view_mode, target_os) ==
    [state |-> "Main", view_mode |-> view_mode, target_os |-> target_os,
     selected_date |-> Today,
     week_data |-> WeekDataNew(WeekStart(Today)),
     weekly_buckets |-> {}, weekly_buckets_week |-> None, weekly_buckets_loading |-> FALSE,
     show_dialog |-> FALSE, dialog_mode |-> "Add", dialog_hours |-> <<>>, dialog_issue |-> "",
     dialog_description |-> <<>>, dialog_worklog_id |-> "", dialog_start_time |-> <<>>,
     error_issue |-> FALSE, error_hours |-> FALSE, validated_issue |-> None,
     pending_delete |-> None, show_delete_confirm |-> FALSE,
     status_message |-> "None", loading |-> FALSE, is_offline |-> FALSE,
     update_info |-> FALSE, update_checking |-> FALSE, update_applying |-> FALSE,
     restart_pending |-> FALSE, progress_phase |-> "Idle"]

\* JiraTimeApp::new ends in refresh_data() and check_for_updates().
Started(view_mode, target_os) ==
    CheckForUpdates(RefreshData([app |-> NewApp(view_mode, target_os), tasks |-> {}]))

World == [app |-> app, tasks |-> tasks]

\* The application and the tasks become those of w; no more than MaxTasks
\* tasks are in flight.
Becomes(w) ==
    /\ Cardinality(w.tasks) <= MaxTasks
    /\ app' = w.app
    /\ tasks' = w.tasks

\* The build for the platform has started the application.
StartedOn(target_os) ==
    /\ call = [fn |-> "run"]
    /\ ret = None
    /\ pc = "main"
    /\ \E view_mode \in {"List", "Schedule"} :
          /\ app = Started(view_mode, target_os).app
          /\ tasks = Started(view_mode, target_os).tasks
    /\ result_rx = <<>>
    /\ server = InitialServer
    /\ clicks = 0

\* The work with Jira does not depend on the platform: no action of NextApp
\* reads target_os.
InitApp == StartedOn("linux")

\* The self-update does: #[cfg(target_os = "macos")].
InitProgress == \E target_os \in {"macos", "linux"} : StartedOn(target_os)

\* One more click of the user; the update overlay blocks the clicks while
\* an update is applied, and the window closes when a restart is pending.
Click ==
    /\ clicks < MaxClicks
    /\ ~app.update_applying
    /\ ~app.restart_pending
    /\ clicks' = clicks + 1

WithinNav(week) ==
    /\ WeekStart(Today) - 7 * MaxWeekNav <= week
    /\ week <= WeekStart(Today) + 7 * MaxWeekNav

\* The left arrow of the week navigation.
PreviousWeek ==
    /\ pc = "main"
    /\ Click
    /\ WithinNav(app.week_data.week_start - 7)
    /\ Becomes(LoadWeek([World EXCEPT !.app.selected_date = app.week_data.week_start - 7],
                        app.week_data.week_start - 7))
    /\ UNCHANGED <<call, ret, pc, result_rx, server>>

\* The right arrow of the week navigation.
NextWeekClicked ==
    /\ pc = "main"
    /\ Click
    /\ WithinNav(app.week_data.week_start + 7)
    /\ Becomes(LoadWeek([World EXCEPT !.app.selected_date = app.week_data.week_start + 7],
                        app.week_data.week_start + 7))
    /\ UNCHANGED <<call, ret, pc, result_rx, server>>

\* The reload button ("Sync with Jira").
Reload ==
    /\ pc = "main"
    /\ Click
    /\ Becomes(RefreshData(World))
    /\ UNCHANGED <<call, ret, pc, result_rx, server>>

\* The Retry button of the offline message.
Retry ==
    /\ pc = "main"
    /\ Click
    /\ app.is_offline
    /\ Becomes(RefreshData([World EXCEPT !.app.is_offline = FALSE]))
    /\ UNCHANGED <<call, ret, pc, result_rx, server>>

\* A day tab of the list view.
SelectDay ==
    /\ pc = "main"
    /\ Click
    /\ ~app.is_offline
    /\ app.view_mode = "List"
    /\ \E i \in 1..MaxDayTabs : app' = [app EXCEPT !.selected_date = AllDays(app.week_data)[i]]
    /\ UNCHANGED <<call, ret, pc, tasks, result_rx, server>>

Range(s) == {s[i] : i \in 1..Len(s)}

\* The entries shown: those of the selected day in the list view, those of
\* the days of the week in the schedule view.
ShownEntries ==
    IF app.view_mode = "List"
    THEN {e \in Range(app.week_data.entries) : e.date = app.selected_date}
    ELSE {e \in Range(app.week_data.entries) : \E i \in 1..7 : AllDays(app.week_data)[i] = e.date}

\* The edit button of an entry.
ClickEdit ==
    /\ pc = "main"
    /\ Click
    /\ ~app.is_offline
    /\ \E entry \in ShownEntries : app' = OpenEditDialog(app, entry)
    /\ UNCHANGED <<call, ret, pc, tasks, result_rx, server>>

\* The delete button of an entry.
ClickDelete ==
    /\ pc = "main"
    /\ Click
    /\ ~app.is_offline
    /\ \E entry \in ShownEntries :
          app' = [app EXCEPT !.pending_delete = Some(entry), !.show_delete_confirm = TRUE]
    /\ UNCHANGED <<call, ret, pc, tasks, result_rx, server>>

\* The add button of the list view; a click on a day of the schedule view,
\* which selects the day and fills in the start time.
ClickAdd ==
    /\ pc = "main"
    /\ Click
    /\ ~app.is_offline
    /\ \/ app.view_mode = "List" /\ app' = OpenAddDialog(app)
       \/ /\ app.view_mode = "Schedule"
          /\ \E i \in 1..MaxDayTabs :
                app' = [OpenAddDialog([app EXCEPT !.selected_date = AllDays(app.week_data)[i]])
                           EXCEPT !.dialog_start_time = TenOClock]
    /\ UNCHANGED <<call, ret, pc, tasks, result_rx, server>>

\* What the user types into the duration field, or leaves as it is.
TypedHours == {<<"1", "5", "m">>, <<"x">>}

\* The user fills in the dialog and clicks Save.
ClickSave ==
    /\ pc = "main"
    /\ Click
    /\ app.show_dialog
    /\ ~app.loading
    /\ \E hours \in TypedHours \cup {app.dialog_hours},
          start_time \in {TenOClock, app.dialog_start_time},
          pick_issue \in BOOLEAN :
          Becomes(SaveDialog(
              [World EXCEPT !.app.dialog_hours = hours,
                            !.app.dialog_start_time = start_time,
                            !.app.dialog_issue = IF pick_issue THEN IssueKey ELSE @,
                            !.app.validated_issue =
                                IF pick_issue THEN Some(<<IssueKey, IssueSummary, IssueType>>)
                                ELSE @]))
    /\ UNCHANGED <<call, ret, pc, result_rx, server>>

\* The Cancel button of the dialog.
ClickCancel ==
    /\ pc = "main"
    /\ Click
    /\ app.show_dialog
    /\ ~app.loading
    /\ app' = [app EXCEPT !.show_dialog = FALSE]
    /\ UNCHANGED <<call, ret, pc, tasks, result_rx, server>>

\* The Delete button of the confirmation.
ConfirmDelete ==
    /\ pc = "main"
    /\ Click
    /\ app.show_delete_confirm
    /\ Becomes(IF app.pending_delete.some
               THEN DeleteWorklog([World EXCEPT !.app.pending_delete = None,
                                                !.app.show_delete_confirm = FALSE],
                                  app.pending_delete.val)
               ELSE [World EXCEPT !.app.show_delete_confirm = FALSE])
    /\ UNCHANGED <<call, ret, pc, result_rx, server>>

\* The Cancel button of the confirmation.
CancelDelete ==
    /\ pc = "main"
    /\ Click
    /\ app.show_delete_confirm
    /\ app' = [app EXCEPT !.pending_delete = None, !.show_delete_confirm = FALSE]
    /\ UNCHANGED <<call, ret, pc, tasks, result_rx, server>>

\* The "update available" indicator of the header.
ClickUpdate ==
    /\ pc = "main"
    /\ Click
    /\ app.update_info
    /\ Becomes(ApplyUpdate(World))
    /\ UNCHANGED <<call, ret, pc, result_rx, server>>

\* The kinds of the tasks that make requests to Jira.
JiraKinds == {"load", "save", "delete", "buckets"}

\* update::check_for_update() or update::apply_update() returns.  A check
\* that finds no update, or fails, sends nothing.
UpdaterReturns ==
    /\ pc = "main"
    /\ \E t \in tasks :
          /\ t.phase = "sent"
          /\ \/ /\ t.kind = "check_update"
                /\ \/ tasks' = (tasks \ {t}) \cup
                                   {[t EXCEPT !.phase = "answered",
                                              !.result = [kind |-> "UpdateAvailable"]]}
                   \/ tasks' = tasks \ {t}
             \/ /\ t.kind = "apply_update"
                /\ \E kind \in {"UpdateApplied", "UpdateError"} :
                      tasks' = (tasks \ {t}) \cup
                                  {[t EXCEPT !.phase = "answered", !.result = [kind |-> kind]]}
    /\ UNCHANGED <<call, ret, pc, app, result_rx, server, clicks>>

\* Jira carries out the request of a task.
JiraHandles ==
    /\ pc = "main"
    /\ \E t \in tasks :
          /\ t.kind \in JiraKinds
          /\ t.phase = "sent"
          /\ JiraAccepts(server, t)
          /\ tasks' = (tasks \ {t}) \cup {[t EXCEPT !.phase = "answered",
                                                    !.result = ResultOf(server, t)]}
          /\ server' = JiraAfter(server, t)
    /\ UNCHANGED <<call, ret, pc, app, result_rx, clicks>>

\* The request of a task fails: Jira refuses it, or the network is down.
RequestFails ==
    /\ pc = "main"
    /\ \E t \in tasks, offline \in BOOLEAN :
          /\ t.kind \in JiraKinds
          /\ t.phase = "sent"
          /\ tasks' = (tasks \ {t}) \cup {[t EXCEPT !.phase = "answered",
                                                    !.result = FailureOf(t, offline)]}
    /\ UNCHANGED <<call, ret, pc, app, result_rx, server, clicks>>

\* `tx.send(...)`, the last step of a task.
TaskSends ==
    /\ pc = "main"
    /\ \E t \in tasks :
          /\ t.phase = "answered"
          /\ tasks' = tasks \ {t}
          /\ result_rx' = Append(result_rx, t.result)
    /\ UNCHANGED <<call, ret, pc, app, server, clicks>>

\* The result sets progress_start to now.
RestartsProgress(result) ==
    result.kind \in {"WorklogsLoaded", "WorklogSaved", "WorklogDeleted", "Error", "Offline"}

\* The progress animation of update once the time of the phase has elapsed.
Animate(a) ==
    CASE a.progress_phase = "FastStart"  -> [a EXCEPT !.progress_phase = "SlowCrawl"]
      [] a.progress_phase = "Completing" -> [a EXCEPT !.progress_phase = "FadingOut"]
      [] a.progress_phase = "FadingOut"  -> [a EXCEPT !.progress_phase = "Idle"]
      [] a.progress_phase = "Shrinking"  -> [a EXCEPT !.progress_phase = "Idle"]
      [] OTHER                           -> a

\* The animation step of a frame that processed the given results: nothing
\* when a restart is pending (update returns), nothing when a result has
\* just restarted the timer, else the phase may have run its time.
AnimatedAfter(a, results, elapsed) ==
    IF a.restart_pending THEN a
    ELSE IF \E i \in 1..Len(results) : RestartsProgress(results[i]) THEN a
    ELSE IF elapsed THEN Animate(a)
    ELSE a

\* A frame: JiraTimeApp::update calls check_async_results and moves the
\* progress animation on.
CheckAsyncResults ==
    /\ pc = "main"
    /\ ~app.restart_pending
    /\ \E elapsed \in BOOLEAN :
          app' = AnimatedAfter(ApplyResults(app, result_rx), result_rx, elapsed)
    /\ app' # app \/ result_rx # <<>>
    /\ result_rx' = <<>>
    /\ UNCHANGED <<call, ret, pc, tasks, server, clicks>>

NextApp ==
    \/ PreviousWeek \/ NextWeekClicked \/ Reload \/ Retry \/ SelectDay
    \/ ClickEdit \/ ClickDelete \/ ClickAdd \/ ClickSave \/ ClickCancel
    \/ ConfirmDelete \/ CancelDelete
    \/ JiraHandles \/ RequestFails \/ TaskSends \/ CheckAsyncResults

\* The work with Jira, while update::check_for_update() has not returned.
SpecApp == InitApp /\ [][NextApp]_vars

\* The progress bar: the operations that start it (a reload, applying an
\* update), the tasks and the frames.
NextProgress ==
    \/ Reload \/ ClickUpdate
    \/ UpdaterReturns \/ JiraHandles \/ RequestFails \/ TaskSends \/ CheckAsyncResults

\* Every task spawned on the tokio runtime runs to its end and sends its
\* result, and eframe keeps calling update while the window is open.
FairProgress ==
    /\ WF_vars(UpdaterReturns)
    /\ WF_vars(JiraHandles \/ RequestFails)
    /\ WF_vars(TaskSends)
    /\ WF_vars(CheckAsyncResults)

SpecProgress == InitProgress /\ [][NextProgress]_vars /\ FairProgress

\* The entries the week view holds.
StoredEntries == Range(app.week_data.entries)

(***************************************************************************)
(* C16: in every reachable state of the application, under every           *)
(* interleaving of week navigation, reload, save, delete and the arrival   *)
(* of asynchronous results, each entry in week_data.entries has a date     *)
(* within [week_data.week_start, week_data.week_start + 6 days]; a         *)
(* WorklogsLoaded or WorklogSaved result that was requested for one week   *)
(* is never stored under a different week_start.                           *)
(***************************************************************************)
C16_EntriesWithinWeek ==
    pc = "main" =>
        \A e \in StoredEntries :
            /\ app.week_data.week_start <= e.date
            /\ e.date <= app.week_data.week_start + 6

\* The other entries, each as often as it is stored.
OthersOf(entries, worklog_id) == SelectSeq(SortEntries(entries), LAMBDA e : e.worklog_id # worklog_id)

(***************************************************************************)
(* C17: when a successful update result (WorklogSaved with is_edit) is     *)
(* processed, the stored entry with the same worklog_id is replaced        *)
(* wholesale: afterwards every field of the stored entry (issue key,       *)
(* summary, type, seconds, description, date, start_time) equals the       *)
(* corresponding field of the entry carried by the result, and no other    *)
(* entry changes.                                                          *)
(***************************************************************************)
C17_EditReplacesEntry ==
    [][(/\ pc = "main"
        /\ Len(result_rx) = 1
        /\ result_rx[1].kind = "WorklogSaved"
        /\ result_rx[1].is_edit
        /\ result_rx' = <<>>)
       => /\ \A e \in Range(app'.week_data.entries) :
                e.worklog_id = result_rx[1].entry.worklog_id => e = result_rx[1].entry
          /\ OthersOf(app'.week_data.entries, result_rx[1].entry.worklog_id)
                = OthersOf(app.week_data.entries, result_rx[1].entry.worklog_id)]_vars

\* The ids Jira has assigned so far.
IssuedIds == {WorklogIds[i] : i \in 1..server.issued}

\* A WorklogDeleted result for the id is on its way to the application.
DeleteResultPending(worklog_id) ==
    \/ \E t \in tasks : t.result = [kind |-> "WorklogDeleted", worklog_id |-> worklog_id]
    \/ \E i \in 1..Len(result_rx) :
          result_rx[i] = [kind |-> "WorklogDeleted", worklog_id |-> worklog_id]

\* Jira has deleted the worklog and the application has processed the result.
DeleteProcessed(worklog_id) ==
    /\ worklog_id \in IssuedIds
    /\ ~HasWorklog(server, worklog_id)
    /\ ~DeleteResultPending(worklog_id)

(***************************************************************************)
(* C18: once the result of a successful delete of a worklog id has been    *)
(* processed, week_data.entries holds no entry with that worklog_id, and   *)
(* the deleted entry does not reappear in any later state of the week      *)
(* view, including when a week-load request that was already in flight     *)
(* delivers its result afterwards.                                         *)
(***************************************************************************)
C18_DeletedEntryStaysGone ==
    pc = "main" =>
        \A worklog_id \in IssuedIds :
            DeleteProcessed(worklog_id) =>
                \A e \in StoredEntries : e.worklog_id # worklog_id

\* The sequence without its i-th element.
RemoveAt(s, i) == SubSeq(s, 1, i - 1) \o SubSeq(s, i + 1, Len(s))

\* The i-th line comes while a list is collected: the lines before it are
\* all items of one list, bullet or ordered.
ListGoesOnAt(lines, i) ==
    /\ i > 1
    /\ \/ \A j \in 1..(i - 1) : IsBulletLine(lines[j])
       \/ \A j \in 1..(i - 1) : IsOrderedListItem(TrimStart(lines[j]))

\* The i-th line starts with two spaces and follows at least one list item.
IsContinuationAt(lines, i) ==
    /\ ListGoesOnAt(lines, i)
    /\ StartsWith(lines[i], <<" ", " ">>)

(***************************************************************************)
(* C19: while markdown_to_adf collects a bullet or ordered list, a line    *)
(* that starts with two leading spaces and follows at least one item is    *)
(* consumed as a continuation and dropped: it adds no item and no          *)
(* paragraph and the list goes on with the next line, so the document is   *)
(* the one of the description without that line.                           *)
(***************************************************************************)
C19_ContinuationDropped ==
    (pc = "done" /\ call.fn = "markdown_to_adf") =>
        \A i \in 1..Len(Lines(call.markdown)) :
            IsContinuationAt(Lines(call.markdown), i) =>
                ret = MarkdownToAdf(JoinLines(RemoveAt(Lines(call.markdown), i)))

\* The delimiter d occurs in text at position p.
OccursAt(text, d, p) ==
    /\ p >= 1
    /\ p + Len(d) - 1 <= Len(text)
    /\ SubSeq(text, p, p + Len(d) - 1) = d

\* An occurrence of d at p and another at q, with at least one character
\* between them.
IsPair(text, d, p, q) ==
    /\ OccursAt(text, d, p)
    /\ OccursAt(text, d, q)
    /\ q >= p + Len(d) + 1

HasPair(text, d) == \E p, q \in 1..Len(text) : IsPair(text, d, p, q)

\* The first kind, in the order tried, whose delimiter has such a pair in
\* text; 0 when no kind has one.
FirstPairedKind(text) ==
    IF \E k \in 1..Len(InlinePatterns) : HasPair(text, InlinePatterns[k].delim)
    THEN CHOOSE k \in 1..Len(InlinePatterns) :
            /\ HasPair(text, InlinePatterns[k].delim)
            /\ \A j \in 1..(k - 1) : ~HasPair(text, InlinePatterns[j].delim)
    ELSE 0

\* nodes are what a match of the pair at p and q of kind k gives: the text
\* before as a plain node, the content with the marks of the kind, and the
\* nodes of the text after the closing delimiter.
NodesOfPair(text, k, p, q) ==
    LET d      == InlinePatterns[k].delim
        before == SubSeq(text, 1, p - 1)
        after  == SubSeq(text, q + Len(d), Len(text))
    IN  (IF before = <<>> THEN <<>> ELSE <<TextNode(before, <<>>)>>)
            \o <<TextNode(SubSeq(text, p + Len(d), q - 1), InlinePatterns[k].marks)>>
            \o (IF after = <<>> THEN <<>> ELSE ParseInlineFormatting(after))

\* The description is one line that became one paragraph with its text.
IsOneParagraph(markdown, document) ==
    /\ markdown # <<>>
    /\ Lines(markdown) = <<markdown>>
    /\ Trim(markdown) = markdown
    /\ Len(document.content) = 1
    /\ document.content[1].type = "paragraph"

(***************************************************************************)
(* C20: parse_inline_formatting on a text: if for some delimiter kind the  *)
(* text contains an occurrence of the delimiter followed, after at least   *)
(* one intervening character, by another occurrence of it, then the first  *)
(* such kind in the order ***, **, ~~, `, *, _ is matched (the text before *)
(* becomes a plain node, the content a node with that kind's marks, and    *)
(* scanning resumes after the closing delimiter); the text becomes a       *)
(* single plain node only when no kind has such a pair.                    *)
(***************************************************************************)
C20_FirstPairedKindMatched ==
    (pc = "done" /\ call.fn = "markdown_to_adf" /\ IsOneParagraph(call.markdown, ret)) =>
        IF FirstPairedKind(call.markdown) = 0
        THEN ret.content[1].content = <<TextNode(call.markdown, <<>>)>>
        ELSE \E p, q \in 1..Len(call.markdown) :
                /\ IsPair(call.markdown, InlinePatterns[FirstPairedKind(call.markdown)].delim, p, q)
                /\ ret.content[1].content =
                       NodesOfPair(call.markdown, FirstPairedKind(call.markdown), p, q)

\* The number of '#' the heading is to start with: the level clamped to
\* [1, 6], 1 when the attribute is absent or not a number.
ClampedLevel(node) ==
    IF ~Has(node, "attrs") \/ ~Has(node.attrs, "level") THEN 1
    ELSE IF Has(node.attrs.level, "pos_int")
    THEN (IF node.attrs.level.pos_int < 1 THEN 1 ELSE Min(node.attrs.level.pos_int, 6))
    ELSE 1

(***************************************************************************)
(* C21: for every heading node, to_text starts the heading's line with     *)
(* exactly k '#' characters followed by one space, where k is the level    *)
(* attribute clamped to [1,6] and the level is taken as 1 when the         *)
(* attribute is absent or not a number; levels 0 and below give one '#',   *)
(* levels above 6 give six.                                                *)
(***************************************************************************)
C21_HeadingLevelClamped ==
    (pc = "done" /\ call.fn = "comment_text" /\ Has(call, "heading")) =>
        ret = Repeat(<<"#">>, ClampedLevel(call.heading)) \o <<" ", "t">>

\* The step is a click on Save: the application and the tasks become what
\* save_dialog makes of the fields the dialog now holds.
SaveDialogCalled ==
    /\ pc = "main"
    /\ clicks' = clicks + 1
    /\ app.show_dialog
    /\ ~app.loading
    /\ [app |-> app', tasks |-> tasks'] =
          SaveDialog([World EXCEPT !.app.dialog_hours = app'.dialog_hours,
                                   !.app.dialog_start_time = app'.dialog_start_time,
                                   !.app.dialog_issue = app'.dialog_issue,
                                   !.app.validated_issue = app'.validated_issue])

C23_WeekStartIsMonday == pc = "main" => IsMonday(app.week_data.week_start)

\* Three clicks on the week navigation have left the view on the week after
\* this one.
C23_Witness ==
    /\ pc = "main"
    /\ app.week_data.week_start = WeekStart(Today) + 7
    /\ app.selected_date = app.week_data.week_start
    /\ clicks = 3

\* A request of the kind is in flight, or its result waits on the channel.
Unprocessed(kinds) ==
    \/ \E t \in tasks : t.kind \in kinds
    \/ \E i \in 1..Len(result_rx) :
          result_rx[i].kind \in {"WorklogsLoaded", "WorklogSaved", "WorklogDeleted",
                                 "Error", "Offline"}

(***************************************************************************)
(* C27: the loading flag is true whenever a week-load, save or delete      *)
(* request has been started and its result has not yet been processed;     *)
(* consequently a second week-load request is never started while one is   *)
(* in flight.                                                              *)
(***************************************************************************)
C27_LoadingWhileInFlight ==
    pc = "main" =>
        /\ Unprocessed({"load", "save", "delete"}) => app.loading
        /\ Cardinality({t \in tasks : t.kind = "load"}) <= 1

(***************************************************************************)
(* C28: when weekly_buckets_week = Some(w), the cached weekly_buckets are  *)
(* the result of the bucket search that was issued for week w; a bucket    *)
(* result requested for one week is never recorded as the cache of another *)
(* week when the user navigates before the result arrives.  (The search    *)
(* for week w returns {w}, or nothing when it failed.)                     *)
(***************************************************************************)
C28_BucketsOfCachedWeek ==
    (pc = "main" /\ app.weekly_buckets_week.some) =>
        app.weekly_buckets \subseteq {app.weekly_buckets_week.val}

(***************************************************************************)
(* C24: for every duration s that is a positive whole number of minutes    *)
(* and for both display modes (HoursMinutes and Decimal),                  *)
(* parse_duration(format_duration_with_format(s, mode)) = Some(s).         *)
(***************************************************************************)
C24_FormatParsesBack ==
    (/\ pc = "parsed"
     /\ call.fn = "format_duration_with_format"
     /\ call.seconds > 0
     /\ call.seconds % 60 = 0) => ret = Some(call.seconds)

(***************************************************************************)
(* Category tags (ui/app.rs): save_dialog puts the selected tags in front  *)
(* of the description, open_edit_dialog takes them off again.              *)
(***************************************************************************)
\* config.tags
CategoryTags == << <<"A">>, <<"P">> >>

\* What the user has in the description field.
TagTexts == SeqsUpTo({"x", " ", "-", "[", "]", "p"}, MaxTagText)

RECURSIVE CategoryPrefix(_, _, _)
\* save_dialog: "[tag]" for each selected tag, from the i-th on.
CategoryPrefix(dialog_categories, tags, i) ==
    IF i > Len(dialog_categories) THEN <<>>
    ELSE (IF dialog_categories[i] /\ i <= Len(tags) THEN <<"[">> \o tags[i] \o <<"]">> ELSE <<>>)
             \o CategoryPrefix(dialog_categories, tags, i + 1)

\* save_dialog: the description sent to Jira.
SavedDescription(dialog_categories, tags, dialog_description) ==
    IF CategoryPrefix(dialog_categories, tags, 1) = <<>> THEN dialog_description
    ELSE IF Trim(dialog_description) = <<>> THEN CategoryPrefix(dialog_categories, tags, 1)
    ELSE CategoryPrefix(dialog_categories, tags, 1) \o <<" ">> \o Trim(dialog_description)

RECURSIVE TrimStartSeparators(_)
\* trim_start_matches(|c: char| c == ' ' || c == '-')
TrimStartSeparators(s) ==
    IF s # <<>> /\ Head(s) \in {" ", "-"} THEN TrimStartSeparators(Tail(s)) ELSE s

\* The index of the first configured tag equal to tag but for case; 0 if none.
MatchingTag(tag, tags) ==
    IF \E i \in 1..Len(tags) : ToLowercase(tags[i]) = ToLowercase(tag)
    THEN CHOOSE i \in 1..Len(tags) :
            /\ ToLowercase(tags[i]) = ToLowercase(tag)
            /\ \A j \in 1..(i - 1) : ToLowercase(tags[j]) # ToLowercase(tag)
    ELSE 0

RECURSIVE ParseTags(_, _, _)
\* The loop of parse_categories_from_description.
ParseTags(categories, remaining, tags) ==
    LET trimmed == TrimStart(remaining)
        end     == Find(trimmed, <<"]">>)
    IN  IF ~StartsWith(trimmed, <<"[">>)
        THEN [categories |-> categories, remaining |-> trimmed]
        ELSE IF end = 0
        THEN [categories |-> categories, remaining |-> remaining]
        ELSE IF MatchingTag(SubSeq(trimmed, 2, end - 1), tags) = 0
        THEN [categories |-> categories, remaining |-> remaining]
        ELSE ParseTags([categories EXCEPT ![MatchingTag(SubSeq(trimmed, 2, end - 1), tags)] = TRUE],
                       TrimStartSeparators(SubSeq(trimmed, end + 1, Len(trimmed))),
                       tags)

\* JiraTimeApp::parse_categories_from_description
ParseCategoriesFromDescription(description, tags) ==
    ParseTags([i \in 1..Len(tags) |-> FALSE], Trim(description), tags)

InitTags ==
    /\ call \in [fn : {"save_dialog"}, dialog_categories : [1..Len(CategoryTags) -> BOOLEAN],
                 dialog_description : TagTexts]
    /\ ret = None
    /\ pc = "call"
    /\ AppNotStarted

\* save_dialog builds the description of the worklog.
CallSavedDescription ==
    /\ pc = "call"
    /\ call.fn = "save_dialog"
    /\ ret' = SavedDescription(call.dialog_categories, CategoryTags, call.dialog_description)
    /\ pc' = "saved"
    /\ UNCHANGED <<call, appVars>>

\* open_edit_dialog on the entry with that description.
CallParseCategories ==
    /\ pc = "saved"
    /\ call.fn = "save_dialog"
    /\ ret' = ParseCategoriesFromDescription(ret, CategoryTags)
    /\ pc' = "done"
    /\ UNCHANGED <<call, appVars>>

NextTags == CallSavedDescription \/ CallParseCategories

SpecTags == InitTags /\ [][NextTags]_vars

(***************************************************************************)
(* C25: for every document of one paragraph whose text nodes have          *)
(* non-empty values without delimiter characters (asterisk, underscore,    *)
(* backtick, tilde) and without leading or trailing whitespace, each node  *)
(* carrying any subset                                                     *)
(* of the marks bold, italic, code, strike: to_document(to_text(d)) has    *)
(* the same text values with the same mark sets in the same order.         *)
(***************************************************************************)
C25_MarksRoundTrip ==
    (pc = "done" /\ call.fn = "comment_text" /\ Has(call, "nodes")) =>
        /\ BlockKinds(MarkdownToAdf(ret).content) = <<"paragraph">>
        /\ TextRuns(MarkdownToAdf(ret).content) = TextRuns(call.nodes)

(***************************************************************************)
(* C26: category tags round trip through a saved description: build the    *)
(* description as save_dialog does (the selected tags as "[tag]" prefixes, *)
(* a space, the trimmed text) and parse_categories_from_description        *)
(* returns the same selection and the same trimmed text, including when    *)
(* the text itself starts with '-' or '['.                                 *)
(***************************************************************************)
C26_TagsRoundTrip ==
    (pc = "done" /\ call.fn = "save_dialog") =>
        ret = [categories |-> call.dialog_categories,
               remaining  |-> Trim(call.dialog_description)]

(***************************************************************************)
(* C29: whenever an operation moves the progress phase out of Idle (week   *)
(* load, save, delete, apply update), the phase eventually returns to Idle *)
(* provided the operation's result is eventually delivered and frames keep *)
(* being rendered; the phase never stays in FastStart or SlowCrawl for     *)
(* ever after the result has been processed.  (A pending restart closes    *)
(* the window, after which no frame is rendered.)                          *)
(***************************************************************************)
C29_ProgressReturnsToIdle ==
    (pc = "main" /\ app.progress_phase # "Idle")
        ~> (app.progress_phase = "Idle" \/ app.restart_pending)

(***************************************************************************)
(* The block loop of parse_markdown_blocks, one iteration at a time: ret   *)
(* holds the line index i (counted from 1) and the lines at which the      *)
(* iterations made so far started.                                         *)
(***************************************************************************)
\* The index only skips one line where the iteration may not.
AfterBlockStaysOnBareQuote(lines, i) ==
    IF IsFenceLine(lines[i]) THEN FenceFrom(lines, i + 1) + 1
    ELSE IF IsQuoteLine(lines[i])
    THEN (IF TrimStart(lines[i]) = <<">">> THEN i ELSE QuoteEnd(lines, i))
    ELSE IF /\ StartsWith(TrimStart(lines[i]), <<"#">>)
            /\ CountLeading(TrimStart(lines[i]), "#") <= 6
    THEN i + 1
    ELSE IF IsBulletLine(lines[i])
    THEN i + ParseBulletList(SubSeq(lines, i, Len(lines))).consumed
    ELSE IF IsOrderedListItem(TrimStart(lines[i]))
    THEN i + ParseOrderedList(SubSeq(lines, i, Len(lines))).consumed
    ELSE i + 1

\* The value of i after the iteration of `while i < lines.len()` that
\* starts at line i.
AfterBlock(lines, i) ==
    IF IsFenceLine(lines[i]) THEN FenceFrom(lines, i + 1) + 1
    ELSE IF IsQuoteLine(lines[i]) THEN QuoteEnd(lines, i)
    ELSE IF /\ StartsWith(TrimStart(lines[i]), <<"#">>)
            /\ CountLeading(TrimStart(lines[i]), "#") <= 6
    THEN i + 1
    ELSE IF IsBulletLine(lines[i])
    THEN i + ParseBulletList(SubSeq(lines, i, Len(lines))).consumed
    ELSE IF IsOrderedListItem(TrimStart(lines[i]))
    THEN i + ParseOrderedList(SubSeq(lines, i, Len(lines))).consumed
    ELSE i + 1

\* The blocks that iteration pushes: those of the loop run from line i over
\* the lines before `after` alone.
BlocksOfIteration(lines, i, after) ==
    BlockLoop(SubSeq(lines, 1, Min(after - 1, Len(lines))), i, <<>>)

RECURSIVE BlocksOfIterations(_, _, _, _)
\* The blocks pushed by the iterations from the k-th on, the last of which
\* left the index at i.
BlocksOfIterations(lines, starts, i, k) ==
    IF k > Len(starts) THEN <<>>
    ELSE BlocksOfIteration(lines, starts[k], IF k < Len(starts) THEN starts[k + 1] ELSE i)
             \o BlocksOfIterations(lines, starts, i, k + 1)

\* `let lines: Vec<&str> = markdown.lines().collect(); let mut i = 0;`
InitBlocks ==
    /\ \E markdown \in DocInputs :
          call = [fn |-> "parse_markdown_blocks", markdown |-> markdown,
                  lines |-> Lines(markdown)]
    /\ ret = [i |-> 1, starts |-> <<>>]
    /\ pc = "loop"
    /\ AppNotStarted

\* One iteration of the loop.
BlockIteration ==
    /\ pc = "loop"
    /\ ret.i <= Len(call.lines)
    /\ ret' = [i      |-> AfterBlock(call.lines, ret.i),
               starts |-> Append(ret.starts, ret.i)]
    /\ UNCHANGED <<call, pc, appVars>>

\* `while i < lines.len()` is false: the loop ends.
BlockLoopEnds ==
    /\ pc = "loop"
    /\ ret.i > Len(call.lines)
    /\ pc' = "done"
    /\ UNCHANGED <<call, ret, appVars>>

NextBlocks == BlockIteration \/ BlockLoopEnds

\* The function runs on: nothing stops a loop that can go on.
SpecBlocks == InitBlocks /\ [][NextBlocks]_vars /\ WF_vars(NextBlocks)

(***************************************************************************)
(* C30: to_document terminates on every input: each iteration of the block *)
(* loop advances the line index by at least one (a list parse always       *)
(* consumes at least its first line, an unterminated fence consumes to the *)
(* end of input, a run of seven or more '#' is consumed as a paragraph),   *)
(* so the loop runs at most once per input line and every input line is    *)
(* consumed by exactly one block or skipped.                               *)
(***************************************************************************)
C30_BlockLoopTerminates ==
    /\ [][(pc = "loop" /\ pc' = "loop") => ret'.i >= ret.i + 1]_vars
    /\ [](pc \in {"loop", "done"} =>
              /\ Len(ret.starts) <= Len(call.lines)
              /\ ret.i <= Len(call.lines) + 2)
    /\ [](pc = "done" =>
              /\ \A k \in 1..Len(ret.starts) :
                    Len(BlocksOfIterations(call.lines, ret.starts, ret.i, k))
                       <= Len(ret.starts) - k + 1
              /\ OrJust(BlocksOfIterations(call.lines, ret.starts, ret.i, 1),
                        CreateParagraph(<<>>))
                    = ParseMarkdownBlocks(call.markdown))
    /\ <>(pc = "done")

\* A paragraph, then a fence that is never closed: two iterations take the
\* three lines, the second one to the end of the input.
C30_Witness ==
    /\ pc = "done"
    /\ call.fn = "parse_markdown_blocks"
    /\ call.markdown = JoinLines(<<Text("plain"), Text("fence"), Text("bullet")>>)
    /\ ret.starts = <<1, 2>>
    /\ ret.i = 5

====
